---- MODULE Spec2Model ----
(***************************************************************************)
(* A model of pevents (src/src/pevents.cpp, the pthread implementation     *)
(* built with WFMO): manual/auto-reset events, SetEvent, ResetEvent,       *)
(* WaitForEvent and WaitForMultipleEvents, run by preemptive threads.      *)
(*                                                                         *)
(* Granularity.  A step is one acquisition of a mutex together with the    *)
(* code that follows it up to the next point where the thread can block    *)
(* (a blocking lock, a condition wait) or reads a variable that another    *)
(* thread may write without the locks held (State, StillWaiting,           *)
(* EventsLeft).  pthread_mutex_trylock never blocks; every try is a step.  *)
(***************************************************************************)
EXTENDS Integers, Naturals, Sequences, FiniteSets, TLC

\* ------------------------------------------------------------------ bounds
NThreads == 4        \* threads; the scenarios with fewer leave the last ones idle
MaxOps == 2          \* calls made by a thread that sets and resets events
Rounds == 2          \* WaitForEvent + SetEvent rounds of the consumer (contention)
TimedMs == 1         \* a timeout that is neither 0 nor WAIT_INFINITE

NEvents == 5         \* events; a scenario creates those it uses
SeqOps == 5          \* calls made by the single thread of the lifecycle scenario
Slots == 3           \* coordinators a thread may have allocated at a time
Iters == 2           \* turns of a worker of the stress scenario (5 in the test)

Threads == 1..NThreads
Events == 1..NEvents
WIds == 1..(Cardinality(Threads) * Slots)      \* the coordinators, Slots per thread

\* --------------------------------------------------------- program constants
WAIT_TIMEOUT == 110                \* ETIMEDOUT
WAIT_INFINITE == -1                \* ~0ull, all ones

VARIABLES
    scn,               \* the scenario (the programs the threads run); never changes
    app,               \* the variables of the program the threads run (stress scenario)
    Live,              \* the events created and not destroyed
    AutoReset,         \* neosmart_event_t_::AutoReset
    State,             \* neosmart_event_t_::State
    Mutex,             \* neosmart_event_t_::Mutex: the holder, 0 when free
    RegisteredWaits,   \* neosmart_event_t_::RegisteredWaits
    wfmo,              \* the neosmart_wfmo_t_ objects, by id
    pc,                \* where each thread is
    op,                \* the call each thread is in
    loc,               \* the locals of that call
    opsDone,           \* calls started by each thread
    rets,              \* the last call each thread returned from, with the value
                       \* returned and the index stored (-1: none)
    credit,            \* history, per auto-reset event: SetEvent calls, plus one if it
                       \* was created set, minus the successful consumptions
    err                \* failed assertions

vars == <<scn, app, Live, AutoReset, State, Mutex, RegisteredWaits, wfmo, pc, op, loc,
          opsDone, rets, credit, err>>

\* ------------------------------------------------------------------ calls
NoOp == [f |-> "none", event |-> 0, events |-> <<>>, waitAll |-> FALSE, milliseconds |-> 0,
         manualReset |-> FALSE, initialState |-> FALSE]
OpSet(e) == [NoOp EXCEPT !.f = "SetEvent", !.event = e]
OpReset(e) == [NoOp EXCEPT !.f = "ResetEvent", !.event = e]
OpWait(e, ms) == [NoOp EXCEPT !.f = "WaitForEvent", !.event = e, !.milliseconds = ms]
OpMulti(es, all, ms) ==
    [NoOp EXCEPT !.f = "WaitForMultipleEvents", !.events = es, !.waitAll = all,
                 !.milliseconds = ms]

OpCreate(e, manualReset, initialState) ==
    [NoOp EXCEPT !.f = "CreateEvent", !.event = e, !.manualReset = manualReset,
                 !.initialState = initialState]
OpDestroy(e) == [NoOp EXCEPT !.f = "DestroyEvent", !.event = e]
OpPulse(e) == [NoOp EXCEPT !.f = "PulseEvent", !.event = e]

NoRet == [call |-> NoOp, result |-> 0, index |-> -1]

NoLoc == [i |-> 0, consumed |-> FALSE, w |-> 0, events_skipped |-> 0,
          skipped_refs |-> 0, result |-> 0]

\* ----------------------------------------------------------- coordinators
\* A coordinator that is not allocated, or has been deleted.
NullWfmo == [alive |-> FALSE, Mutex |-> 0, RefCount |-> 0, Status |-> 0,
             WaitAll |-> FALSE, StillWaiting |-> FALSE]

\* The k-th coordinator of thread t.
WIdOf(t, k) == (t - 1) * Slots + k
Owner(w) == ((w - 1) \div Slots) + 1

\* The coordinators of thread t that are not allocated: new takes the first.
FreeIds(t) == {k \in 1..Slots : ~wfmo[WIdOf(t, k)].alive}
FirstFree(t) == CHOOSE k \in FreeIds(t) : \A x \in FreeIds(t) : k <= x

\* new neosmart_wfmo_t_ with its initial values and its mutex taken.
NewWfmo(t, o) ==
    [alive |-> TRUE, Mutex |-> t, RefCount |-> 1 + Len(o.events),
     Status |-> IF o.waitAll THEN Len(o.events) ELSE -1,
     WaitAll |-> o.waitAll, StillWaiting |-> TRUE]

\* RefCount.fetch_sub(n), and Destroy + delete when that was the last reference.
DecRef(wf, w, n) ==
    [wf EXCEPT ![w] = IF @.RefCount = n THEN NullWfmo
                      ELSE [@ EXCEPT !.RefCount = @ - n]]

\* assert(ref_count > 0) on the value before the decrement; a read of a deleted object.
RefErr(wf, w) ==
    (IF wf[w].RefCount <= 0 THEN {"ref_count > 0"} ELSE {})
    \cup (IF ~wf[w].alive THEN {"use after delete"} ELSE {})

Erase(s, i) == [k \in 1..(Len(s) - 1) |-> IF k < i THEN s[k] ELSE s[k + 1]]

\* std::remove_if(..., RemoveExpiredWaitHelper): the registrations kept.
RemoveExpired(regs, wf) == SelectSeq(regs, LAMBDA r : wf[r.Waiter].StillWaiting)

\* The reference counts after RemoveExpiredWaitHelper ran over regs.
RemoveExpiredWaitHelper(regs, wf) ==
    [w \in WIds |->
        LET n == Cardinality({k \in DOMAIN regs :
                                regs[k].Waiter = w /\ ~wf[w].StillWaiting})
        IN  IF n = 0 THEN wf[w] ELSE DecRef(wf, w, n)[w]]

\* assert(ref_count > 0) in RemoveExpiredWaitHelper, over the registrations it removes.
SweepErr(regs, wf) ==
    UNION {RefErr(wf, regs[k].Waiter) :
             k \in {j \in DOMAIN regs : ~wf[regs[j].Waiter].StillWaiting}}

\* A consumption that leaves the auto-reset events signalled.
ConsumeState_Never(S, e) == S

\* A consumption that resets a manual-reset event too.
ConsumeState_Always(S, e) == [S EXCEPT ![e] = FALSE]

\* A consumption that resets every auto-reset event.
ConsumeState_All(S, e) == [x \in DOMAIN S |-> S[x] /\ ~AutoReset[x]]

\* UnlockedWaitForEvent on a signalled event: the effect on State ...
ConsumeState(S, e) == IF AutoReset[e] THEN [S EXCEPT ![e] = FALSE] ELSE S

\* A consumption that leaves the flags of the registrations as they are.
ConsumeRegs_Keep(regs, wf, e) == regs

\* ... on the registrations of the event (wait-all claims are taken back) ...
ConsumeRegs(regs, wf, e) ==
    IF AutoReset[e]
    THEN [k \in DOMAIN regs |->
            IF regs[k].Signalled /\ wf[regs[k].Waiter].WaitAll
            THEN [regs[k] EXCEPT !.Signalled = FALSE] ELSE regs[k]]
    ELSE regs

\* A consumption that clears the flags and leaves EventsLeft as it is.
ConsumeWfmo_Keep(regs, wf, e) == wf

\* ... and on EventsLeft of the wait-all coordinators whose claim is taken back.
ConsumeWfmo(regs, wf, e) ==
    IF AutoReset[e]
    THEN [w \in WIds |->
            LET n == Cardinality({k \in DOMAIN regs : regs[k].Waiter = w
                                    /\ regs[k].Signalled /\ wf[w].WaitAll})
            IN  [wf[w] EXCEPT !.Status = @ + n]]
    ELSE wf

\* The history after a successful call consumed the auto-reset events among es.
Consumed(es) ==
    [e \in Events |->
        credit[e] - Cardinality({k \in DOMAIN es : es[k] = e /\ AutoReset[e]})]

\* Threads blocked in pthread_cond_wait / pthread_cond_timedwait on e's CVariable.
Waiters(e) == {u \in Threads : pc[u] = "wfe_wait" /\ op[u].event = e}

\* ------------------------------------------------------------ scenarios
\* Arrays of distinct events, of length 1 or 2: the two events in either order.
Arrays == {<<e>> : e \in 1..2}
          \cup {<<e1, e2>> : <<e1, e2>> \in {p \in (1..2) \X (1..2) : p[1] # p[2]}}

\* general: thread 1 sets and resets any event, thread 2 makes one multiple wait of any
\* kind, thread 3 one single wait or one multiple wait on both events.  A finite timeout
\* stands for WAIT_INFINITE too: the wait may never time out.
MenuGeneral(t) ==
    CASE t = 1 -> IF opsDone[t] >= MaxOps THEN {}
                  ELSE {OpSet(e) : e \in Live} \cup {OpReset(e) : e \in Live}
      [] t = 2 -> IF opsDone[t] >= 1 THEN {}
                  ELSE {OpMulti(a, all, ms) :
                          <<a, all, ms>> \in Arrays \X BOOLEAN \X {0, TimedMs}}
      [] t = 3 -> IF opsDone[t] >= 1 THEN {}
                  ELSE {OpWait(e, ms) : <<e, ms>> \in Live \X {0, TimedMs}}
                       \cup {OpMulti(<<1, 2>>, all, TimedMs) : all \in BOOLEAN}
      [] OTHER -> {}

\* contention (tests/EventContention.cpp): thread 1 alternates WaitForEvent(e, 0) and
\* SetEvent(e); the other threads call SetEvent(e).
MenuContention(t) ==
    IF t = 1
    THEN IF opsDone[t] >= 2 * Rounds THEN {}
         ELSE IF opsDone[t] % 2 = 0 THEN {OpWait(1, 0)} ELSE {OpSet(1)}
    ELSE IF opsDone[t] >= 1 THEN {} ELSE {OpSet(1)}

\* An event that is manual-reset and signalled.
Sticky(e) == ~AutoReset[e] /\ State[e]

\* sticky: manual-reset events are never reset; thread 1 sets any event and resets the
\* auto-reset ones; threads 2 and 3 each make one wait that a signalled manual-reset
\* event satisfies: on it, for any event of an array that holds it, or for all the
\* events of an array of such events.
MenuSticky(t) ==
    CASE t = 1 -> IF opsDone[t] >= MaxOps THEN {}
                  ELSE {OpSet(e) : e \in Live}
                       \cup {OpReset(e) : e \in {x \in Live : AutoReset[x]}}
      [] t \in {2, 3} ->
                  IF opsDone[t] >= 1 THEN {}
                  ELSE {OpWait(e, ms) :
                          <<e, ms>> \in {x \in Live : Sticky(x)} \X {0, TimedMs}}
                       \cup {OpMulti(a, FALSE, ms) :
                               <<a, ms>> \in {x \in Arrays : \E k \in DOMAIN x : Sticky(x[k])}
                                             \X {0, TimedMs}}
                       \cup {OpMulti(a, TRUE, ms) :
                               <<a, ms>> \in {x \in Arrays : \A k \in DOMAIN x : Sticky(x[k])}
                                             \X {0, TimedMs}}
      [] OTHER -> {}

\* broadcast: thread 1 sets the manual-reset event 1 once; threads 2 and 3 each wait
\* for it with no timeout, alone or in a wait for any of an array.
MenuBroadcast(t) ==
    CASE t = 1 -> IF opsDone[t] >= 1 THEN {} ELSE {OpSet(1)}
      [] t \in {2, 3} ->
                  IF opsDone[t] >= 1 THEN {}
                  ELSE {OpWait(1, WAIT_INFINITE)}
                       \cup {OpMulti(a, FALSE, WAIT_INFINITE) :
                               a \in {<<1>>, <<1, 2>>, <<2, 1>>}}
      [] OTHER -> {}

\* claim: thread 1 sets the auto-reset events; thread 2 waits for all the events of an
\* array and thread 3 for any, with no timeout.
MenuClaim(t) ==
    CASE t = 1 -> IF opsDone[t] >= MaxOps THEN {} ELSE {OpSet(e) : e \in Live}
      [] t = 2 -> IF opsDone[t] >= 1 THEN {}
                  ELSE {OpMulti(a, TRUE, WAIT_INFINITE) : a \in Arrays}
      [] t = 3 -> IF opsDone[t] >= 1 THEN {}
                  ELSE {OpMulti(<<e>>, FALSE, WAIT_INFINITE) : e \in Live}
      [] OTHER -> {}

\* order: threads 1 and 2 each set one auto-reset event once; threads 3 and 4 wait
\* for the two events, given in opposite orders.
MenuOrder(t) ==
    CASE t \in {1, 2} -> IF opsDone[t] >= 1 THEN {} ELSE {OpSet(t)}
      [] t \in {3, 4} ->
                  IF opsDone[t] >= 1 THEN {}
                  ELSE {OpMulti(IF t = 3 THEN <<1, 2>> ELSE <<2, 1>>, all, TimedMs) :
                          all \in BOOLEAN}
      [] OTHER -> {}

\* overlap: threads 1 and 2 each set one auto-reset event once; threads 3 and 4 each
\* wait for all the events of an array of the two events, in either order, with a
\* timeout or with none.
MenuOverlap(t) ==
    CASE t \in {1, 2} -> IF opsDone[t] >= 1 THEN {} ELSE {OpSet(t)}
      [] t \in {3, 4} ->
                  IF opsDone[t] >= 1 THEN {}
                  ELSE {OpMulti(a, TRUE, ms) :
                          <<a, ms>> \in {<<1, 2>>, <<2, 1>>} \X {TimedMs, WAIT_INFINITE}}
      [] OTHER -> {}

\* blocked (tests/AutoResetBasicTests.cpp, ManualResetBasicTests.cpp): threads 2 and 3
\* each wait with no timeout, thread 2 for event 1 and thread 3 for event 2; thread 1
\* sets the events.
MenuBlocked(t) ==
    CASE t = 1 -> IF opsDone[t] >= MaxOps THEN {} ELSE {OpSet(e) : e \in Live}
      [] t \in {2, 3} -> IF opsDone[t] >= 1 THEN {} ELSE {OpWait(t - 1, WAIT_INFINITE)}
      [] OTHER -> {}

\* pulse: thread 1 pulses the events, and no thread sets one; thread 2 waits for all
\* the events of an array, thread 3 for any event of an array or for one event.
MenuPulse(t) ==
    CASE t = 1 -> IF opsDone[t] >= MaxOps THEN {} ELSE {OpPulse(e) : e \in Live}
      [] t = 2 -> IF opsDone[t] >= 1 THEN {}
                  ELSE {OpMulti(a, TRUE, TimedMs) : a \in Arrays}
      [] t = 3 -> IF opsDone[t] >= 1 THEN {}
                  ELSE {OpMulti(a, FALSE, TimedMs) : a \in Arrays}
                       \cup {OpWait(e, TimedMs) : e \in Live}
      [] OTHER -> {}

\* stress (tests/StressTest.cpp): the workers, their events and the shared ones.
THREADS == (NEvents - 1) \div 2
WorkerThreads == 2..(THREADS + 1)
Index(t) == t - 2
WorkerEvent(index) == index + 1
DoneEvent(index) == THREADS + index + 1
Shutdown == 2 * THREADS + 1
DoneArray == [k \in 1..THREADS |-> DoneEvent(k - 1)]

\* The call the program of thread t makes where it is: the main thread (1) wakes
\* worker 0, waits for all the done events and polls shutdown; a worker waits for its
\* event or shutdown, sets done[index] after its last turn, polls all the done events,
\* polls the done event of a thread drawn by rand() until one is not set, wakes that
\* thread, and sets done[index] after the loop; it sets shutdown on an error.  The
\* timeout of 45000 ms is a finite one.
MenuStress(t) ==
    IF rets[t] # NoRet THEN {}
    ELSE CASE app.at[t] = "m_wake" -> {OpSet(WorkerEvent(0))}
           [] app.at[t] = "m_wait" -> {OpMulti(DoneArray, TRUE, TimedMs)}
           [] app.at[t] = "m_check" -> {OpWait(Shutdown, 0)}
           [] app.at[t] = "w_wait" ->
                  {OpMulti(<<WorkerEvent(Index(t)), Shutdown>>, FALSE, TimedMs)}
           [] app.at[t] = "w_shutdown" -> {OpSet(Shutdown)}
           [] app.at[t] = "w_setdone" -> {OpSet(DoneEvent(Index(t)))}
           [] app.at[t] = "w_polldone" -> {OpMulti(DoneArray, TRUE, 0)}
           [] app.at[t] = "w_pick" -> {OpWait(DoneEvent(n), 0) : n \in 0..(THREADS - 1)}
           [] app.at[t] = "w_wake" -> {OpSet(WorkerEvent(app.next_thread[t]))}
           [] app.at[t] = "w_finish" -> {OpSet(DoneEvent(Index(t)))}
           [] OTHER -> {}

\* The arrays of one, two or three distinct events of L (three: in increasing order).
ArraysOf(L) ==
    {<<e>> : e \in L}
    \cup {<<p[1], p[2]>> : p \in {q \in L \X L : q[1] # q[2]}}
    \cup {<<p[1], p[2], p[3]>> : p \in {q \in L \X L \X L : q[1] < q[2] /\ q[2] < q[3]}}

\* lifecycle (tests/AutoResetInitialState.cpp, ManualResetInitialState.cpp,
\* WaitTimeoutAllSignalled.cpp, the sequential parts of AutoResetBasicTests.cpp and
\* ManualResetBasicTests.cpp): one thread creates up to three events of either kind
\* and initial state, sets, resets and polls them, alone or in arrays, waits for one
\* with a timeout, and destroys them.
MenuLifecycle(t) ==
    IF t # 1 \/ opsDone[t] >= SeqOps THEN {}
    ELSE {OpCreate(e, m, s) : <<e, m, s>> \in ((1..3) \ Live) \X BOOLEAN \X BOOLEAN}
         \cup {OpSet(e) : e \in Live} \cup {OpReset(e) : e \in Live}
         \cup {OpDestroy(e) : e \in Live}
         \cup {OpWait(e, ms) : <<e, ms>> \in Live \X {0, TimedMs}}
         \cup {OpMulti(a, all, 0) : <<a, all>> \in ArraysOf(Live) \X BOOLEAN}

\* The calls thread t may make next.
Menu(t) ==
    CASE scn = "general" -> MenuGeneral(t)
      [] scn = "contention" -> MenuContention(t)
      [] scn = "sticky" -> MenuSticky(t)
      [] scn = "broadcast" -> MenuBroadcast(t)
      [] scn = "claim" -> MenuClaim(t)
      [] scn = "order" -> MenuOrder(t)
      [] scn = "overlap" -> MenuOverlap(t)
      [] scn = "lifecycle" -> MenuLifecycle(t)
      [] scn = "blocked" -> MenuBlocked(t)
      [] scn = "pulse" -> MenuPulse(t)
      [] scn = "stress" -> MenuStress(t)
      [] OTHER -> {}


\* The step of the call o that returns: the thread is idle again.
Return(t, o, result, index) ==
    /\ pc' = [pc EXCEPT ![t] = "idle"]
    /\ op' = [op EXCEPT ![t] = NoOp]
    /\ loc' = [loc EXCEPT ![t] = NoLoc]
    /\ rets' = [rets EXCEPT ![t] = [call |-> o, result |-> result, index |-> index]]

TypeOK ==
    /\ State \in [Events -> BOOLEAN]
    /\ Mutex \in [Events -> {0} \cup Threads]
    /\ \A w \in WIds : wfmo[w].Mutex \in {0} \cup Threads
    /\ \A t \in Threads : rets[t].result \in {0, WAIT_TIMEOUT}

\* The kinds, or the states, the created events L may have (the others: FALSE).
Kinds(L) == {f \in [Events -> BOOLEAN] : \A e \in Events \ L : ~f[e]}

\* The program of the stress scenario is not running.
NoApp == [shared_resource |-> -1, done_count |-> 0, at |-> [t \in Threads |-> "none"],
          i |-> [t \in Threads |-> 0], next_thread |-> [t \in Threads |-> 0]]

\* The state after CreateEvent for each event of Live, with any initialState, before
\* any call.
InitEvents ==
    /\ State \in Kinds(Live)
    /\ Mutex = [e \in Events |-> 0]
    /\ RegisteredWaits = [e \in Events |-> <<>>]
    /\ wfmo = [w \in WIds |-> NullWfmo]
    /\ pc = [t \in Threads |-> "idle"]
    /\ op = [t \in Threads |-> NoOp]
    /\ loc = [t \in Threads |-> NoLoc]
    /\ opsDone = [t \in Threads |-> 0]
    /\ rets = [t \in Threads |-> NoRet]
    /\ credit = [e \in Events |-> IF AutoReset[e] /\ State[e] THEN 1 ELSE 0]
    /\ err = {}

\* Event 1 is auto-reset, event 2 of either kind.
Init ==
    /\ scn = "general"
    /\ app = NoApp
    /\ Live = 1..2
    /\ AutoReset \in {f \in Kinds(Live) : f[1]}
    /\ InitEvents

\* One auto-reset event, created set.
InitContention ==
    /\ scn = "contention"
    /\ app = NoApp
    /\ Live = {1}
    /\ AutoReset = [e \in Events |-> e \in Live]
    /\ InitEvents
    /\ State = [e \in Events |-> e = 1]

\* Event 1 is manual-reset, event 2 of either kind.
InitSticky ==
    /\ scn = "sticky"
    /\ app = NoApp
    /\ Live = 1..2
    /\ AutoReset \in {f \in Kinds(Live) : ~f[1]}
    /\ InitEvents

\* Event 1 is manual-reset and event 2 auto-reset; neither is set.
InitBroadcast ==
    /\ scn = "broadcast"
    /\ app = NoApp
    /\ Live = 1..2
    /\ AutoReset = [e \in Events |-> e = 2]
    /\ InitEvents
    /\ State = [e \in Events |-> FALSE]

\* Two auto-reset events.
InitClaim ==
    /\ scn = "claim"
    /\ app = NoApp
    /\ Live = 1..2
    /\ AutoReset = [e \in Events |-> e \in Live]
    /\ InitEvents

\* Two auto-reset events, not set.
InitOrder ==
    /\ scn = "order"
    /\ app = NoApp
    /\ Live = 1..2
    /\ AutoReset = [e \in Events |-> e \in Live]
    /\ InitEvents
    /\ State = [e \in Events |-> FALSE]

\* Two events of either kind, neither set.
InitBlocked ==
    /\ scn = "blocked"
    /\ app = NoApp
    /\ Live = 1..2
    /\ AutoReset \in Kinds(Live)
    /\ InitEvents
    /\ State = [e \in Events |-> FALSE]

\* Two events of either kind, set or not.
InitPulse ==
    /\ scn = "pulse"
    /\ app = NoApp
    /\ Live = 1..2
    /\ AutoReset \in Kinds(Live)
    /\ InitEvents

\* main, before the threads start: an auto-reset event for each worker, a manual-reset
\* done event for each and the manual-reset shutdown event, none set.
InitStress ==
    /\ scn = "stress"
    /\ app = [NoApp EXCEPT !.at = [t \in Threads |->
                                     IF t = 1 THEN "m_wake"
                                     ELSE IF t \in WorkerThreads THEN "w_wait"
                                     ELSE "none"]]
    /\ Live = 1..Shutdown
    /\ AutoReset = [e \in Events |-> e <= THREADS]
    /\ InitEvents
    /\ State = [e \in Events |-> FALSE]

\* No event is created yet.
InitLifecycle ==
    /\ scn = "lifecycle"
    /\ app = NoApp
    /\ Live = {}
    /\ AutoReset = [e \in Events |-> FALSE]
    /\ InitEvents

Begin(t) == opsDone' = [opsDone EXCEPT ![t] = @ + 1]

\* pthread_cond_signal / pthread_cond_broadcast on a coordinator's CVariable: only the
\* thread that made the call waits there.
CoordWaiters(w) ==
    {u \in Threads : u = Owner(w) /\ pc[u] = "wm_wait" /\ loc[u].w = w}

\* ------------------------------------------------- the stress test program
\* The program of thread t goes on to a, having used the value its call returned.
Goes(t, a) ==
    /\ app' = [app EXCEPT !.at[t] = a]
    /\ rets' = [rets EXCEPT ![t] = NoRet]
    /\ opsDone' = [opsDone EXCEPT ![t] = 0]

\* The call of thread t, whose program is at a, has returned.
Called(t, a) == app.at[t] = a /\ pc[t] = "idle" /\ rets[t] # NoRet

\* worker, after WaitForMultipleEvents(events, 2, false, 45000, event_idx): a timeout
\* or a shared_resource in use is an error, event_idx == 1 ends the loop.
Worker_Waited(t) ==
    /\ Called(t, "w_wait")
    /\ Goes(t, IF rets[t].result = WAIT_TIMEOUT THEN "w_shutdown"
               ELSE IF rets[t].index = 1 THEN "w_finish"
               ELSE IF app.shared_resource # -1 THEN "w_shutdown"
               ELSE "w_enter")
    /\ UNCHANGED <<scn, Live, AutoReset, State, Mutex, RegisteredWaits, wfmo, pc, op, loc,
                   credit, err>>

\* shared_resource = index
Worker_Enter(t) ==
    /\ app.at[t] = "w_enter"
    /\ app' = [app EXCEPT !.at[t] = "w_crit", !.shared_resource = Index(t)]
    /\ UNCHANGED <<scn, Live, AutoReset, State, Mutex, RegisteredWaits, wfmo, pc, op, loc,
                   opsDone, rets, credit, err>>

\* ++done_count; shared_resource = -1; if (i == 4) SetEvent(done[index]) comes next.
Worker_Leave(t) ==
    /\ app.at[t] = "w_crit"
    /\ app' = [app EXCEPT !.at[t] = IF app.i[t] = Iters - 1 THEN "w_setdone"
                                    ELSE "w_polldone",
                          !.done_count = @ + 1,
                          !.shared_resource = -1]
    /\ UNCHANGED <<scn, Live, AutoReset, State, Mutex, RegisteredWaits, wfmo, pc, op, loc,
                   opsDone, rets, credit, err>>

\* worker, after each of its other calls.
Worker_Called(t) ==
    /\ t \in WorkerThreads /\ pc[t] = "idle" /\ rets[t] # NoRet
    /\ app.at[t] \in {"w_shutdown", "w_setdone", "w_polldone", "w_finish"}
    /\ Goes(t, CASE app.at[t] = "w_shutdown" -> "w_finish"
                 [] app.at[t] = "w_setdone" -> "w_polldone"
                 [] app.at[t] = "w_polldone" ->
                        IF rets[t].result = 0 THEN "w_finish" ELSE "w_pick"
                 [] OTHER -> "end")
    /\ UNCHANGED <<scn, Live, AutoReset, State, Mutex, RegisteredWaits, wfmo, pc, op, loc,
                   credit, err>>

\* worker, after WaitForEvent(done[next_thread], 0): the do-while loop ends on a
\* thread whose done event is not set, or draws again.
Worker_Picked(t) ==
    /\ Called(t, "w_pick")
    /\ app' = [app EXCEPT !.at[t] = IF rets[t].result = WAIT_TIMEOUT THEN "w_wake"
                                    ELSE "w_pick",
                          !.next_thread[t] = IF rets[t].result = WAIT_TIMEOUT
                                             THEN rets[t].call.event - THREADS - 1 ELSE @]
    /\ rets' = [rets EXCEPT ![t] = NoRet]
    /\ opsDone' = [opsDone EXCEPT ![t] = 0]
    /\ UNCHANGED <<scn, Live, AutoReset, State, Mutex, RegisteredWaits, wfmo, pc, op, loc,
                   credit, err>>

\* worker, after SetEvent(workers[next_thread]): ++i, and the loop goes on or ends.
Worker_Woke(t) ==
    /\ Called(t, "w_wake")
    /\ app' = [app EXCEPT !.at[t] = IF app.i[t] + 1 < Iters THEN "w_wait" ELSE "w_finish",
                          !.i[t] = @ + 1]
    /\ rets' = [rets EXCEPT ![t] = NoRet]
    /\ opsDone' = [opsDone EXCEPT ![t] = 0]
    /\ UNCHANGED <<scn, Live, AutoReset, State, Mutex, RegisteredWaits, wfmo, pc, op, loc,
                   credit, err>>

\* main, after each of its calls: a timeout of the wait for the done events, or
\* shutdown found set, is a failure.
Main_Called(t) ==
    /\ t = 1 /\ pc[t] = "idle" /\ rets[t] # NoRet
    /\ app.at[t] \in {"m_wake", "m_wait", "m_check"}
    /\ Goes(t, CASE app.at[t] = "m_wake" -> "m_wait"
                 [] app.at[t] = "m_wait" ->
                        IF rets[t].result = WAIT_TIMEOUT THEN "fail" ELSE "m_check"
                 [] OTHER -> IF rets[t].result = 0 THEN "fail" ELSE "end")
    /\ UNCHANGED <<scn, Live, AutoReset, State, Mutex, RegisteredWaits, wfmo, pc, op, loc,
                   credit, err>>

\* ---------------------------------------------- CreateEvent, DestroyEvent
\* A CreateEvent that leaves the new event unsignalled whatever initialState is.
InitialState_Unset(o) == FALSE

\* event->State.store(initialState): the state CreateEvent gives the new event.
InitialState(o) == o.initialState

\* new neosmart_event_t_ with its mutex, its condition variable, the kind and the
\* state asked for, and no registered wait.
CreateEvent(t) ==
    \E o \in Menu(t) :
        /\ pc[t] = "idle" /\ o.f = "CreateEvent"
        /\ o.event \notin Live
        /\ Live' = Live \cup {o.event}
        /\ AutoReset' = [AutoReset EXCEPT ![o.event] = ~o.manualReset]
        /\ State' = [State EXCEPT ![o.event] = InitialState(o)]
        /\ Mutex' = [Mutex EXCEPT ![o.event] = 0]
        /\ RegisteredWaits' = [RegisteredWaits EXCEPT ![o.event] = <<>>]
        /\ credit' = [credit EXCEPT ![o.event] =
                        IF ~o.manualReset /\ InitialState(o) THEN 1 ELSE 0]
        /\ Begin(t)
        /\ Return(t, o, 0, -1)
        /\ UNCHANGED <<scn, app, wfmo, err>>

\* A DestroyEvent that deletes the event with all its registrations.
DestroySweep_None(regs, wf) == wf

\* RegisteredWaits.erase(std::remove_if(..., RemoveExpiredWaitHelper), ...) in
\* DestroyEvent: the coordinators after the sweep.
DestroySweep(regs, wf) == RemoveExpiredWaitHelper(regs, wf)

\* pthread_mutex_lock; the registrations of the waits that are over are removed, each
\* giving its reference back; pthread_mutex_unlock; the condition variable and the
\* mutex are destroyed and the event deleted, with the registrations that are left.
DestroyEvent(t) ==
    \E o \in Menu(t) :
        /\ pc[t] = "idle" /\ o.f = "DestroyEvent"
        /\ o.event \in Live
        /\ Mutex[o.event] = 0
        /\ wfmo' = DestroySweep(RegisteredWaits[o.event], wfmo)
        /\ err' = err \cup SweepErr(RegisteredWaits[o.event], wfmo)
        /\ RegisteredWaits' = [RegisteredWaits EXCEPT ![o.event] = <<>>]
        /\ Live' = Live \ {o.event}
        /\ AutoReset' = [AutoReset EXCEPT ![o.event] = FALSE]
        /\ State' = [State EXCEPT ![o.event] = FALSE]
        /\ credit' = [credit EXCEPT ![o.event] = 0]
        /\ Begin(t)
        /\ Return(t, o, 0, -1)
        /\ UNCHANGED <<scn, app, Mutex>>

\* ------------------------------------------------------------- SetEvent
\* pthread_mutex_lock(&event->Mutex); consumed = false; i = RegisteredWaits.begin()
SetEvent_Lock(t) ==
    \E o \in Menu(t) :
        /\ pc[t] = "idle" /\ o.f = "SetEvent"
        /\ Mutex[o.event] = 0
        /\ Mutex' = [Mutex EXCEPT ![o.event] = t]
        /\ pc' = [pc EXCEPT ![t] = "se_walk"]
        /\ op' = [op EXCEPT ![t] = o]
        /\ loc' = [loc EXCEPT ![t] = [NoLoc EXCEPT !.i = 1]]
        /\ credit' = [credit EXCEPT ![o.event] = IF AutoReset[o.event] THEN @ + 1 ELSE @]
        /\ Begin(t)
        /\ UNCHANGED <<scn, app, Live, AutoReset, State, RegisteredWaits, wfmo, rets, err>>

\* A hand-off that never uses the signal up: State is set as well.
HandOffConsumes_Never(e) == FALSE

\* if (event->AutoReset) consumed = true: the signal handed to a wait-any waiter is
\* used up when the event is auto-reset.
HandOffConsumes(e) == AutoReset[e]

\* A SetEvent that counts every registration it walks over.
AlreadyCounted_Never(r) == FALSE

\* if (!i->Signalled) fails: the registration r already holds the event as
\* signalled, and SetEvent goes on to the next.
AlreadyCounted(r) == r.Signalled

\* A walk that goes on to the end of the registered waits after a hand-off.
WalkDone_AtEnd(consumed, i, n) == i > n

\* The loop condition of the walk, !consumed && i != RegisteredWaits.end(), fails.
WalkDone(consumed, i, n) == consumed \/ i > n

\* A SetEvent that trusts what it read before it locked the waiter.
StillWaitingLocked_Stale(wf, w) == TRUE

\* StillWaiting read again, with the waiter's mutex held.
StillWaitingLocked(wf, w) == wf[w].StillWaiting

\* ref_count = RefCount.fetch_sub(1); Destroy and delete when it was 1; erase(i): the
\* registration i of the event e is dropped, its waiter having left.
DropRegistration(t, e, i) ==
    LET w == RegisteredWaits[e][i].Waiter
    IN  /\ wfmo' = DecRef(wfmo, w, 1)
        /\ err' = err \cup RefErr(wfmo, w)
        /\ RegisteredWaits' = [RegisteredWaits EXCEPT ![e] = Erase(RegisteredWaits[e], i)]
        /\ pc' = [pc EXCEPT ![t] = "se_walk"]
        /\ UNCHANGED loc

\* The head of one iteration of the walk over the registered waits: StillWaiting is
\* read without the waiter's mutex, and the registration of a waiter that has left is
\* dropped; the mutex of any other is to be locked.
SetEvent_Check(t) ==
    /\ pc[t] = "se_walk"
    /\ ~WalkDone(loc[t].consumed, loc[t].i, Len(RegisteredWaits[op[t].event]))
    /\ LET e == op[t].event
           i == loc[t].i
           w == RegisteredWaits[e][i].Waiter
       IN  IF ~wfmo[w].StillWaiting
           THEN DropRegistration(t, e, i)
           ELSE /\ pc' = [pc EXCEPT ![t] = "se_lockw"]
                /\ UNCHANGED <<RegisteredWaits, wfmo, loc, err>>
    /\ UNCHANGED <<scn, app, Live, AutoReset, State, Mutex, op, opsDone, rets, credit>>

\* The rest of the iteration, from pthread_mutex_lock(&i->Waiter->Mutex) to its
\* unlock: StillWaiting is read again, and the registration is dropped, skipped,
\* counted for the wait for all, or the event handed to the wait for any.
SetEvent_Walk(t) ==
    /\ pc[t] = "se_lockw"
    /\ LET e == op[t].event
           regs == RegisteredWaits[e]
           i == loc[t].i
           r == regs[i]
           w == r.Waiter
       IN  /\ wfmo[w].Mutex = 0          \* pthread_mutex_lock(&i->Waiter->Mutex)
           /\ IF ~StillWaitingLocked(wfmo, w)
              THEN DropRegistration(t, e, i)
              ELSE IF AlreadyCounted(r)
              THEN /\ loc' = [loc EXCEPT ![t].i = i + 1]
                   /\ pc' = [pc EXCEPT ![t] = "se_walk"]
                   /\ UNCHANGED <<wfmo, RegisteredWaits, err>>
              ELSE IF wfmo[w].WaitAll
              THEN \* EventsLeft.fetch_sub(1); wake the waiter when none is left
                   /\ wfmo' = [wfmo EXCEPT ![w].Status = @ - 1]
                   /\ err' = err \cup (IF wfmo[w].Status <= 0 THEN {"left > 0"} ELSE {})
                   /\ RegisteredWaits' =
                          [RegisteredWaits EXCEPT ![e][i].Signalled = TRUE]
                   /\ LET woken == IF wfmo[w].Status = 1 THEN CoordWaiters(w) ELSE {}
                      IN  /\ pc' = [u \in Threads |->
                                      IF u = t THEN "se_walk"
                                      ELSE IF u \in woken THEN "wm_woken" ELSE pc[u]]
                          /\ loc' = [u \in Threads |->
                                      IF u = t THEN [loc[u] EXCEPT !.i = i + 1]
                                      ELSE IF u \in woken
                                      THEN [loc[u] EXCEPT !.result = 0]
                                      ELSE loc[u]]
              ELSE \* wait-any: hand the event to the waiter and drop the registration
                   /\ wfmo' = DecRef([wfmo EXCEPT ![w].Status = r.WaitIndex,
                                                  ![w].StillWaiting = FALSE], w, 1)
                   /\ err' = err \cup RefErr(wfmo, w)
                   /\ RegisteredWaits' = [RegisteredWaits EXCEPT ![e] = Erase(regs, i)]
                   /\ LET woken == CoordWaiters(w)
                      IN  /\ pc' = [u \in Threads |->
                                      IF u = t THEN "se_walk"
                                      ELSE IF u \in woken THEN "wm_woken" ELSE pc[u]]
                          /\ loc' = [u \in Threads |->
                                      IF u = t
                                      THEN [loc[u] EXCEPT !.consumed = HandOffConsumes(e)]
                                      ELSE IF u \in woken
                                      THEN [loc[u] EXCEPT !.result = 0]
                                      ELSE loc[u]]
    /\ UNCHANGED <<scn, app, Live, AutoReset, State, Mutex, op, opsDone, rets, credit>>

\* A PulseEvent that returns when its SetEvent does.
AfterSet_Return(o) == "idle"

\* Where the thread is when SetEvent returns: PulseEvent calls SetEvent and then
\* ResetEvent, on the same event.
AfterSet(o) == IF o.f = "PulseEvent" THEN "pe_reset" ELSE "idle"

\* return 0 of SetEvent, to its caller: the thread or PulseEvent.
SetEvent_Return(t) ==
    IF AfterSet(op[t]) = "idle"
    THEN Return(t, op[t], 0, -1)
    ELSE /\ pc' = [pc EXCEPT ![t] = AfterSet(op[t])]
         /\ loc' = [loc EXCEPT ![t] = NoLoc]
         /\ UNCHANGED <<op, rets>>

\* After the walk: the signal was handed over, or State becomes true.
SetEvent_Finish(t) ==
    /\ pc[t] = "se_walk"
    /\ WalkDone(loc[t].consumed, loc[t].i, Len(RegisteredWaits[op[t].event]))
    /\ LET e == op[t].event
       IN  /\ Mutex' = [Mutex EXCEPT ![e] = 0]
           /\ IF loc[t].consumed
              THEN /\ err' = err \cup (IF State[e] THEN {"State == false"} ELSE {})
                   /\ SetEvent_Return(t)
                   /\ UNCHANGED State
              ELSE /\ State' = [State EXCEPT ![e] = TRUE]
                   /\ pc' = [pc EXCEPT ![t] = "se_signal"]
                   /\ UNCHANGED <<op, loc, rets, err>>
    /\ UNCHANGED <<scn, app, Live, AutoReset, RegisteredWaits, wfmo, opsDone, credit>>

\* pthread_cond_signal used for the manual-reset events too.
SignalChoices_One(e) ==
    IF Waiters(e) = {} THEN {{}} ELSE {{u} : u \in Waiters(e)}

\* The sets of threads SetEvent may wake: pthread_cond_signal wakes one of the waiters
\* of an auto-reset event, pthread_cond_broadcast all those of a manual-reset event.
SignalChoices(e) ==
    IF ~AutoReset[e] THEN {Waiters(e)}
    ELSE IF Waiters(e) = {} THEN {{}}
    ELSE {{u} : u \in Waiters(e)}

\* pthread_cond_signal (auto-reset) or pthread_cond_broadcast (manual-reset) on the
\* event's CVariable, after its mutex was released.
SetEvent_Signal(t) ==
    /\ pc[t] = "se_signal"
    /\ LET e == op[t].event
       IN  \E woken \in SignalChoices(e) :
              /\ pc' = [u \in Threads |->
                          IF u = t THEN AfterSet(op[t])
                          ELSE IF u \in woken THEN "wfe_woken" ELSE pc[u]]
              /\ loc' = [u \in Threads |->
                          IF u = t THEN NoLoc
                          ELSE IF u \in woken THEN [loc[u] EXCEPT !.result = 0]
                          ELSE loc[u]]
    /\ IF AfterSet(op[t]) = "idle"
       THEN /\ op' = [op EXCEPT ![t] = NoOp]
            /\ rets' = [rets EXCEPT ![t] = [call |-> op[t], result |-> 0, index |-> -1]]
       ELSE UNCHANGED <<op, rets>>
    /\ UNCHANGED <<scn, app, Live, AutoReset, State, Mutex, RegisteredWaits, wfmo, opsDone,
                   credit, err>>

\* ----------------------------------------------------------- ResetEvent
\* pthread_mutex_lock(&event->Mutex); State.store(false)
ResetEvent_Lock(t) ==
    \E o \in Menu(t) :
        /\ pc[t] = "idle" /\ o.f = "ResetEvent"
        /\ Mutex[o.event] = 0
        /\ Mutex' = [Mutex EXCEPT ![o.event] = t]
        /\ State' = [State EXCEPT ![o.event] = FALSE]
        /\ pc' = [pc EXCEPT ![t] = "rs_walk"]
        /\ op' = [op EXCEPT ![t] = o]
        /\ loc' = [loc EXCEPT ![t] = [NoLoc EXCEPT !.i = 1]]
        /\ Begin(t)
        /\ UNCHANGED <<scn, app, Live, AutoReset, RegisteredWaits, wfmo, rets, credit, err>>

\* A ResetEvent that leaves the registrations as they are.
ResetUndoes_Never(r, wf) == FALSE

\* if (i->Signalled) if (i->Waiter->WaitAll): the registration r of a wait for all
\* that holds the event as signalled is taken back.
ResetUndoes(r, wf) == r.Signalled /\ wf[r.Waiter].WaitAll

\* One iteration of the walk over the registered waits, or the unlock after the last.
ResetEvent_Walk(t) ==
    /\ pc[t] = "rs_walk"
    /\ LET e == op[t].event
           regs == RegisteredWaits[e]
           i == loc[t].i
       IN  IF i > Len(regs)
           THEN /\ Mutex' = [Mutex EXCEPT ![e] = 0]
                /\ Return(t, op[t], 0, -1)
                /\ UNCHANGED <<RegisteredWaits, wfmo, err>>
           ELSE LET r == regs[i]
                    w == r.Waiter
                IN  /\ UNCHANGED <<Mutex, pc, op, rets>>
                    /\ IF ~wfmo[w].StillWaiting
                       THEN /\ wfmo' = DecRef(wfmo, w, 1)
                            /\ err' = err \cup RefErr(wfmo, w)
                            /\ RegisteredWaits' =
                                   [RegisteredWaits EXCEPT ![e] = Erase(regs, i)]
                            /\ UNCHANGED loc
                       ELSE /\ loc' = [loc EXCEPT ![t].i = i + 1]
                            /\ UNCHANGED err
                            /\ IF ResetUndoes(r, wfmo)
                               THEN /\ RegisteredWaits' =
                                        [RegisteredWaits EXCEPT ![e][i].Signalled = FALSE]
                                    /\ wfmo' = [wfmo EXCEPT ![w].Status = @ + 1]
                               ELSE UNCHANGED <<RegisteredWaits, wfmo>>
    /\ UNCHANGED <<scn, app, Live, AutoReset, State, opsDone, credit>>

\* A wait that never blocks, whatever its timeout.
Polls_Always(o) == TRUE

\* if (milliseconds == 0): a wait that is not satisfied returns WAIT_TIMEOUT at once.
Polls(o) == o.milliseconds = 0

\* --------------------------------------------------------- WaitForEvent
\* UnlockedWaitForEvent, entered with the event's mutex just taken by thread t, whose
\* call is o; WaitForEvent unlocks the mutex when it returns.
UnlockedWaitForEvent(t, o) ==
    LET e == o.event
    IN  IF ~State[e]
        THEN IF Polls(o)
             THEN /\ Return(t, o, WAIT_TIMEOUT, -1)
                  /\ UNCHANGED <<State, RegisteredWaits, wfmo, credit>>
             ELSE \* pthread_cond_wait / pthread_cond_timedwait: the mutex is released
                  /\ pc' = [pc EXCEPT ![t] = "wfe_wait"]
                  /\ op' = [op EXCEPT ![t] = o]
                  /\ UNCHANGED <<loc, rets, State, RegisteredWaits, wfmo, credit>>
        ELSE /\ State' = ConsumeState(State, e)
             /\ RegisteredWaits' =
                    [RegisteredWaits EXCEPT ![e] = ConsumeRegs(@, wfmo, e)]
             /\ wfmo' = ConsumeWfmo(RegisteredWaits[e], wfmo, e)
             /\ credit' = Consumed(<<e>>)
             /\ Return(t, o, 0, -1)

\* The two checks made before the mutex is taken (the loads of State without it).
WaitForEvent_Fast(t) ==
    \E o \in Menu(t) :
        /\ pc[t] = "idle" /\ o.f = "WaitForEvent"
        /\ o.milliseconds = 0 \/ ~AutoReset[o.event]
        /\ Begin(t)
        /\ IF o.milliseconds = 0 /\ ~State[o.event]
           THEN Return(t, o, WAIT_TIMEOUT, -1)
           ELSE IF o.milliseconds # 0 /\ State[o.event]
           THEN Return(t, o, 0, -1)       \* manual-reset and signalled
           ELSE /\ pc' = [pc EXCEPT ![t] =
                            IF o.milliseconds = 0 /\ ~AutoReset[o.event]
                            THEN "wfe_fast2" ELSE "wfe_lock"]
                /\ op' = [op EXCEPT ![t] = o]
                /\ UNCHANGED <<loc, rets>>
        /\ UNCHANGED <<scn, app, Live, AutoReset, State, Mutex, RegisteredWaits, wfmo,
                       credit, err>>

\* The second check, of a manual-reset event, when the first one read State too.
WaitForEvent_Fast2(t) ==
    /\ pc[t] = "wfe_fast2"
    /\ IF State[op[t].event]
       THEN Return(t, op[t], 0, -1)
       ELSE /\ pc' = [pc EXCEPT ![t] = "wfe_lock"]
            /\ UNCHANGED <<op, loc, rets>>
    /\ UNCHANGED <<scn, app, Live, AutoReset, State, Mutex, RegisteredWaits, wfmo, opsDone,
                   credit, err>>

\* pthread_mutex_lock(&event->Mutex) and UnlockedWaitForEvent, of a call that read no
\* State before (an auto-reset event, a timeout that is not 0).
WaitForEvent_Call(t) ==
    \E o \in Menu(t) :
        /\ pc[t] = "idle" /\ o.f = "WaitForEvent"
        /\ o.milliseconds # 0 /\ AutoReset[o.event]
        /\ Mutex[o.event] = 0
        /\ Begin(t)
        /\ UnlockedWaitForEvent(t, o)
        /\ UNCHANGED <<scn, app, Live, AutoReset, Mutex, err>>

\* A poll that uses pthread_mutex_trylock and times out when the mutex is held.
GivesUpWhenBusy_Poll(o) == o.milliseconds = 0 /\ Mutex[o.event] # 0

\* WaitForEvent takes the mutex with pthread_mutex_lock whatever the timeout: it never
\* gives up because the mutex is held.
GivesUpWhenBusy(o) == FALSE

\* pthread_mutex_lock(&event->Mutex) and UnlockedWaitForEvent, after the checks.
WaitForEvent_Lock(t) ==
    /\ pc[t] = "wfe_lock"
    /\ IF GivesUpWhenBusy(op[t])
       THEN /\ Return(t, op[t], WAIT_TIMEOUT, -1)
            /\ UNCHANGED <<State, RegisteredWaits, wfmo, credit>>
       ELSE /\ Mutex[op[t].event] = 0
            /\ UnlockedWaitForEvent(t, op[t])
    /\ UNCHANGED <<scn, app, Live, AutoReset, Mutex, opsDone, err>>

\* A wait that takes any return of the condition wait for the signal.
WaitsAgain_Never(result, e) == FALSE

\* while (result == 0 && !event->State.load()): a condition wait that returned with
\* no timeout and finds the event unsignalled (a spurious wakeup, or the signal was
\* taken by another thread) is made again.
WaitsAgain(result, e) == result = 0 /\ ~State[e]

\* The condition wait returned (the mutex is taken again): the do-while loop of
\* UnlockedWaitForEvent and what follows it.
WaitForEvent_Wake(t) ==
    /\ pc[t] = "wfe_woken"
    /\ Mutex[op[t].event] = 0
    /\ LET e == op[t].event
       IN  IF WaitsAgain(loc[t].result, e)
           THEN /\ pc' = [pc EXCEPT ![t] = "wfe_wait"]
                /\ UNCHANGED <<op, loc, rets, State, RegisteredWaits, wfmo, credit>>
           ELSE IF loc[t].result = 0
           THEN /\ State' = ConsumeState(State, e)
                /\ RegisteredWaits' =
                       [RegisteredWaits EXCEPT ![e] = ConsumeRegs(@, wfmo, e)]
                /\ wfmo' = ConsumeWfmo(RegisteredWaits[e], wfmo, e)
                /\ credit' = Consumed(<<e>>)
                /\ Return(t, op[t], 0, -1)
           ELSE /\ Return(t, op[t], loc[t].result, -1)
                /\ UNCHANGED <<State, RegisteredWaits, wfmo, credit>>
    /\ UNCHANGED <<scn, app, Live, AutoReset, Mutex, opsDone, err>>

\* ----------------------------------------------------------- PulseEvent
\* result = SetEvent(event): its first step.
PulseEvent_Set(t) ==
    \E o \in Menu(t) :
        /\ pc[t] = "idle" /\ o.f = "PulseEvent"
        /\ Mutex[o.event] = 0
        /\ Mutex' = [Mutex EXCEPT ![o.event] = t]
        /\ pc' = [pc EXCEPT ![t] = "se_walk"]
        /\ op' = [op EXCEPT ![t] = o]
        /\ loc' = [loc EXCEPT ![t] = [NoLoc EXCEPT !.i = 1]]
        /\ credit' = [credit EXCEPT ![o.event] = IF AutoReset[o.event] THEN @ + 1 ELSE @]
        /\ Begin(t)
        /\ UNCHANGED <<scn, app, Live, AutoReset, State, RegisteredWaits, wfmo, rets, err>>

\* result = ResetEvent(event): its first step.
PulseEvent_Reset(t) ==
    /\ pc[t] = "pe_reset"
    /\ Mutex[op[t].event] = 0
    /\ Mutex' = [Mutex EXCEPT ![op[t].event] = t]
    /\ State' = [State EXCEPT ![op[t].event] = FALSE]
    /\ pc' = [pc EXCEPT ![t] = "rs_walk"]
    /\ loc' = [loc EXCEPT ![t] = [NoLoc EXCEPT !.i = 1]]
    /\ UNCHANGED <<scn, app, Live, AutoReset, RegisteredWaits, wfmo, op, opsDone, rets,
                   credit, err>>

\* ------------------------------------------------- the condition variables
\* pthread_cond_timedwait returns ETIMEDOUT: the deadline of a finite timeout passed.
CondTimeout(t) ==
    /\ pc[t] \in {"wfe_wait", "wm_wait"}
    /\ op[t].milliseconds # WAIT_INFINITE
    /\ pc' = [pc EXCEPT ![t] = IF pc[t] = "wfe_wait" THEN "wfe_woken" ELSE "wm_woken"]
    /\ loc' = [loc EXCEPT ![t].result = WAIT_TIMEOUT]
    /\ UNCHANGED <<scn, app, Live, AutoReset, State, Mutex, RegisteredWaits, wfmo, op, opsDone,
                   rets, credit, err>>

\* A condition wait may return 0 with no signal (a spurious wakeup).
CondSpurious(t) ==
    /\ pc[t] \in {"wfe_wait", "wm_wait"}
    /\ pc' = [pc EXCEPT ![t] = IF pc[t] = "wfe_wait" THEN "wfe_woken" ELSE "wm_woken"]
    /\ loc' = [loc EXCEPT ![t].result = 0]
    /\ UNCHANGED <<scn, app, Live, AutoReset, State, Mutex, RegisteredWaits, wfmo, op, opsDone,
                   rets, credit, err>>

\* ------------------------------------------------ WaitForMultipleEvents
\* A call that gives back its own reference only.
FinalDecrement_One(skipped_refs) == 1

\* RefCount.fetch_sub(1 + skipped_refs): the call gives back its own reference and
\* those of the events it did not register on.
FinalDecrement(skipped_refs) == 1 + skipped_refs

\* After the wait loop: waitIndex = FiredEvent; StillWaiting = false; unlock;
\* RefCount.fetch_sub(1 + skipped_refs); return result.
Leave(t, o, wf, w, skipped_refs, result, E) ==
    /\ wfmo' = DecRef([wf EXCEPT ![w].StillWaiting = FALSE, ![w].Mutex = 0],
                      w, FinalDecrement(skipped_refs))
    /\ err' = err \cup E \cup RefErr(wf, w)
    /\ Return(t, o, result, wf[w].Status)

\* if (!done) at the end of the wait loop: a poll times out, any other call waits on
\* the coordinator's CVariable, which releases the coordinator's mutex.
WaitOrPoll(t, o, wf, w, skipped_refs, E) ==
    IF Polls(o)
    THEN Leave(t, o, wf, w, skipped_refs, WAIT_TIMEOUT, E)
    ELSE /\ wfmo' = [wf EXCEPT ![w].Mutex = 0]
         /\ pc' = [pc EXCEPT ![t] = "wm_wait"]
         /\ op' = [op EXCEPT ![t] = o]
         /\ loc' = [loc EXCEPT ![t] = [NoLoc EXCEPT !.w = w, !.skipped_refs = skipped_refs]]
         /\ err' = err \cup E
         /\ UNCHANGED rets

\* A registration loop that leaves EventsLeft at the number of events.
EventsLeftAfter_Unskipped(left, events_skipped) == left

\* A registration loop that takes the events found signalled off EventsLeft twice.
EventsLeftAfter_Twice(left, events_skipped) == left - 2 * events_skipped

\* EventsLeft.fetch_sub(events_skipped): the events found signalled by the
\* registration loop are not waited for.
EventsLeftAfter(left, events_skipped) == left - events_skipped

\* The end of one iteration of the registration loop that did not finish the call,
\* and, after the last one, EventsLeft.fetch_sub(events_skipped).
Advance(t, o, wf, w, i, events_skipped, E) ==
    IF i < Len(o.events)
    THEN /\ wfmo' = wf
         /\ pc' = [pc EXCEPT ![t] = "wm_reg"]
         /\ op' = [op EXCEPT ![t] = o]
         /\ loc' = [loc EXCEPT ![t] =
                      [NoLoc EXCEPT !.w = w, !.i = i, !.events_skipped = events_skipped]]
         /\ err' = err \cup E
         /\ UNCHANGED rets
    ELSE IF o.waitAll
    THEN /\ wfmo' = [wf EXCEPT ![w].Status = EventsLeftAfter(@, events_skipped)]
         /\ pc' = [pc EXCEPT ![t] = "wm_check"]
         /\ op' = [op EXCEPT ![t] = o]
         /\ loc' = [loc EXCEPT ![t] = [NoLoc EXCEPT !.w = w]]
         /\ err' = err \cup E
         /\ UNCHANGED rets
    ELSE WaitOrPoll(t, o, wf, w, 0, E)

\* A call that gives back one reference more than the events it did not register on.
SkippedRefs_OneMore(count, i) == count - i + 1

\* skipped_refs += (count - i): a wait for any event that finds events[i] signalled
\* registers on none of events[i] .. events[count - 1], and gives their references
\* back together with its own.
SkippedRefs(count, i) == count - i

\* A registration that numbers the events of the array from 1.
WaitIndex_FromOne(i) == i + 1

\* waitInfo.WaitIndex = i: the registration carries the position of its event in the
\* array, which a hand-off stores in FiredEvent.
WaitIndex(i) == i

\* A registration loop that does not take the mutex of the event.
EventLocked_Unheld(M, e) == TRUE

\* pthread_mutex_lock(&events[i]->Mutex) returns: no thread holds the mutex of e.
EventLocked(M, e) == M[e] = 0

\* A wait for any event that registers on the events it finds signalled.
FoundSignalled_Never(S, e) == FALSE

\* if (skipLock || waitInfo.Signalled), with the mutex of e held: a wait for any
\* event that finds e signalled takes it and is done; it does not register on e.
FoundSignalled(S, e) == S[e]

\* One iteration of the registration loop, for events[i] (i counts from 0).  wf holds
\* the coordinator w with its mutex taken; checked: the State of a manual-reset event
\* was already read without its mutex and found false.
Register(t, o, wf, w, i, events_skipped, checked) ==
    LET e == o.events[i + 1]
        count == Len(o.events)
    IN  IF ~checked /\ ~o.waitAll /\ ~AutoReset[e]
        THEN IF State[e]
             THEN \* skipLock
                  /\ Leave(t, o, [wf EXCEPT ![w].Status = i], w, SkippedRefs(count, i), 0, {})
                  /\ UNCHANGED <<State, RegisteredWaits, credit>>
             ELSE /\ wfmo' = wf
                  /\ pc' = [pc EXCEPT ![t] = "wm_reglock"]
                  /\ op' = [op EXCEPT ![t] = o]
                  /\ loc' = [loc EXCEPT ![t] = [NoLoc EXCEPT !.w = w, !.i = i]]
                  /\ UNCHANGED <<State, RegisteredWaits, credit, rets, err>>
        ELSE /\ EventLocked(Mutex, e)
             /\ LET kept == RemoveExpired(RegisteredWaits[e], wf)
                    wf1 == RemoveExpiredWaitHelper(RegisteredWaits[e], wf)
                    E == SweepErr(RegisteredWaits[e], wf)
                    info == [Waiter |-> w, WaitIndex |-> WaitIndex(i), Signalled |-> State[e]]
                IN  IF FoundSignalled(State, e) /\ ~o.waitAll
                    THEN \* consume the event and finish
                         /\ State' = ConsumeState(State, e)
                         /\ RegisteredWaits' =
                                [RegisteredWaits EXCEPT ![e] = ConsumeRegs(kept, wf1, e)]
                         /\ credit' = Consumed(<<e>>)
                         /\ Leave(t, o, [ConsumeWfmo(kept, wf1, e) EXCEPT ![w].Status = i],
                                  w, SkippedRefs(count, i), 0, E)
                    ELSE /\ RegisteredWaits' =
                                [RegisteredWaits EXCEPT ![e] = Append(kept, info)]
                         /\ Advance(t, o, wf1, w, i + 1,
                                    events_skipped + (IF State[e] THEN 1 ELSE 0), E)
                         /\ UNCHANGED <<State, credit>>

\* The call: the coordinator is made, its mutex taken, and the loop's first iteration.
WFMO_Call(t) ==
    \E o \in Menu(t) :
        /\ pc[t] = "idle" /\ o.f = "WaitForMultipleEvents"
        /\ Begin(t)
        /\ FreeIds(t) # {}
        /\ LET w == WIdOf(t, FirstFree(t))
           IN  Register(t, o, [wfmo EXCEPT ![w] = NewWfmo(t, o)], w, 0, 0, FALSE)
        /\ UNCHANGED <<scn, app, Live, AutoReset, Mutex>>

WFMO_Register(t) ==
    /\ pc[t] = "wm_reg"
    /\ Register(t, op[t], wfmo, loc[t].w, loc[t].i, loc[t].events_skipped, FALSE)
    /\ UNCHANGED <<scn, app, Live, AutoReset, Mutex, opsDone>>

WFMO_RegisterLocked(t) ==
    /\ pc[t] = "wm_reglock"
    /\ Register(t, op[t], wfmo, loc[t].w, loc[t].i, loc[t].events_skipped, TRUE)
    /\ UNCHANGED <<scn, app, Live, AutoReset, Mutex, opsDone>>

\* A wait for all that tries its claim at every pass of the wait loop.
NoneLeft_Always(wf, w) == TRUE

\* Status.EventsLeft.load() == 0: every event of the wait for all is held signalled.
NoneLeft(wf, w) == wf[w].Status = 0

\* The top of the wait loop, with the coordinator's mutex held by t: done for a
\* wait-any call when FiredEvent is set; a wait-all call with no event left goes on to
\* claim the events; any other call waits or times out.
WaitLoop(t, wf) ==
    LET o == op[t]
        w == loc[t].w
    IN  IF ~o.waitAll
        THEN IF wf[w].Status # -1
             THEN /\ credit' = Consumed(<<o.events[wf[w].Status + 1]>>)
                  /\ Leave(t, o, wf, w, loc[t].skipped_refs, 0, {})
             ELSE /\ WaitOrPoll(t, o, wf, w, loc[t].skipped_refs, {})
                  /\ UNCHANGED credit
        ELSE IF NoneLeft(wf, w)
        THEN /\ wfmo' = wf
             /\ pc' = [pc EXCEPT ![t] = "wm_try"]
             /\ loc' = [loc EXCEPT ![t].i = 0]
             /\ UNCHANGED <<op, rets, credit, err>>
        ELSE /\ WaitOrPoll(t, o, wf, w, loc[t].skipped_refs, {})
             /\ UNCHANGED credit

\* The first pass of the wait loop of a wait-all call, after the registration loop.
WFMO_Check(t) ==
    /\ pc[t] = "wm_check"
    /\ WaitLoop(t, wfmo)
    /\ UNCHANGED <<scn, app, Live, AutoReset, State, Mutex, RegisteredWaits, opsDone>>

\* The condition wait on the coordinator returned (its mutex is taken again): leave
\* on a result other than 0, else go round the wait loop.
WFMO_Wake(t) ==
    /\ pc[t] = "wm_woken"
    /\ wfmo[loc[t].w].Mutex = 0
    /\ IF loc[t].result # 0
       THEN /\ Leave(t, op[t], wfmo, loc[t].w, loc[t].skipped_refs, loc[t].result, {})
            /\ UNCHANGED credit
       ELSE WaitLoop(t, [wfmo EXCEPT ![loc[t].w].Mutex = t])
    /\ UNCHANGED <<scn, app, Live, AutoReset, State, Mutex, RegisteredWaits, opsDone>>

\* A claim that keeps the event mutexes it took.
Released_Kept(t) == Mutex

\* The event mutexes with those held by thread t released.
Released(t) == [x \in Events |-> IF Mutex[x] = t THEN 0 ELSE Mutex[x]]

\* UnlockedWaitForEvent(events[k], 0) for k = from .. count, in array order.
RECURSIVE ConsumeAll(_, _, _)
ConsumeAll(es, k, acc) ==
    IF k > Len(es) THEN acc
    ELSE ConsumeAll(es, k + 1,
             [S |-> ConsumeState(acc.S, es[k]),
              R |-> [acc.R EXCEPT ![es[k]] = ConsumeRegs(@, acc.W, es[k])],
              W |-> ConsumeWfmo(acc.R[es[k]], acc.W, es[k])])

\* A consuming loop that starts at the second event.
AtomicConsume_SkipFirst(es, acc) == ConsumeAll(es, 2, acc)

\* if (lockedAtomically): every event of the array is consumed, from the first.
AtomicConsume(es, acc) == ConsumeAll(es, 1, acc)

\* A claim that consumes each event as soon as its mutex is taken.
Examined_Consumed(S, e) == ConsumeState(S, e)

\* What locking events[i] changes of the State of the events: the claim only loads the
\* State of an event it locked; nothing is written before every mutex is held.
Examined(S, e) == S

\* A claim that does not keep the mutex of the event it examined.
TryLocked_Unlocked(M, e, t) == M

\* pthread_mutex_trylock(&events[i]->Mutex) returned 0: thread t holds the mutex.
TryLocked(M, e, t) == [M EXCEPT ![e] = t]

\* A failed claim that counts the events of the array that are not signalled and
\* stores the count in EventsLeft.
AfterFailedClaim_Rescan(wf, w, es) ==
    [wf EXCEPT ![w].Status = Cardinality({k \in DOMAIN es : ~State[es[k]]})]

\* if (!events[i]->State.load()): the mutexes are released, lockedAtomically = false
\* and the loop is left; nothing of the coordinator is written.
AfterFailedClaim(wf, w, es) == wf

\* One pthread_mutex_trylock of the atomic claim (label retry), on events[i]: busy,
\* all is released and the claim starts again; the event is not signalled, all is
\* released and the call waits; locked and signalled, the claim goes on to the next
\* event, and after the last one the call holds every mutex.
WFMO_TryLock(t) ==
    /\ pc[t] = "wm_try"
    /\ LET o == op[t]
           w == loc[t].w
           i == loc[t].i
           e == o.events[i + 1]
       IN  /\ IF Mutex[e] # 0
              THEN \* EBUSY
                   /\ Mutex' = Released(t)
                   /\ loc' = [loc EXCEPT ![t].i = 0]
                   /\ UNCHANGED <<State, RegisteredWaits, wfmo, pc, op, rets, credit, err>>
              ELSE IF ~State[e]
              THEN \* the event was taken by another thread
                   /\ Mutex' = Released(t)
                   /\ WaitOrPoll(t, o, AfterFailedClaim(wfmo, w, o.events), w,
                                 loc[t].skipped_refs, {})
                   /\ UNCHANGED <<State, RegisteredWaits, credit>>
              ELSE \* locked and signalled: the next event, or the end of the loop
                   /\ Mutex' = TryLocked(Mutex, e, t)
                   /\ loc' = [loc EXCEPT ![t].i = i + 1]
                   /\ State' = Examined(State, e)
                   /\ pc' = [pc EXCEPT ![t] =
                                IF i + 1 < Len(o.events) THEN "wm_try" ELSE "wm_claimed"]
                   /\ UNCHANGED <<RegisteredWaits, wfmo, op, rets, credit, err>>
    /\ UNCHANGED <<scn, app, Live, AutoReset, opsDone>>

\* if (lockedAtomically): with the mutex of every event of the array held,
\* UnlockedWaitForEvent(events[i], 0) and pthread_mutex_unlock for each; done = true,
\* and the call leaves with 0.
WFMO_Consume(t) ==
    /\ pc[t] = "wm_claimed"
    /\ LET o == op[t]
           all == AtomicConsume(o.events, [S |-> State, R |-> RegisteredWaits, W |-> wfmo])
       IN  /\ Mutex' = Released(t)
           /\ State' = all.S
           /\ RegisteredWaits' = all.R
           /\ credit' = Consumed(o.events)
           /\ Leave(t, o, all.W, loc[t].w, loc[t].skipped_refs, 0, {})
    /\ UNCHANGED <<scn, app, Live, AutoReset, opsDone>>

\* ------------------------------------------------------- specification
SetEvent(t) ==
    \/ SetEvent_Lock(t) \/ SetEvent_Check(t) \/ SetEvent_Walk(t)
    \/ SetEvent_Finish(t) \/ SetEvent_Signal(t)

ResetEvent(t) == ResetEvent_Lock(t) \/ ResetEvent_Walk(t)

WaitForEvent(t) ==
    \/ WaitForEvent_Fast(t) \/ WaitForEvent_Fast2(t) \/ WaitForEvent_Call(t)
    \/ WaitForEvent_Lock(t) \/ WaitForEvent_Wake(t)

WaitForMultipleEvents(t) ==
    \/ WFMO_Call(t) \/ WFMO_Register(t) \/ WFMO_RegisterLocked(t)
    \/ WFMO_Check(t) \/ WFMO_Wake(t) \/ WFMO_TryLock(t) \/ WFMO_Consume(t)

\* The steps of thread t's own code.
Step(t) == SetEvent(t) \/ ResetEvent(t) \/ WaitForEvent(t) \/ WaitForMultipleEvents(t)

Next == \E t \in Threads : Step(t) \/ CondTimeout(t) \/ CondSpurious(t)

Spec == Init /\ [][Next]_vars

\* The scheduler runs every thread that can take a step of its code; no condition wait
\* has to time out or to wake with no signal.
Fairness == \A t \in Threads : WF_vars(Step(t))

NextContention ==
    \E t \in Threads :
        \/ SetEvent_Lock(t) \/ SetEvent_Finish(t) \/ SetEvent_Signal(t)
        \/ WaitForEvent_Fast(t) \/ WaitForEvent_Lock(t)

SpecContention == InitContention /\ [][NextContention]_vars

NextSticky ==
    \E t \in Threads :
        \/ SetEvent(t) \/ ResetEvent(t)
        \/ WaitForEvent_Fast(t) \/ WaitForEvent_Fast2(t)
        \/ WFMO_Call(t) \/ WFMO_Register(t) \/ WFMO_Check(t) \/ WFMO_TryLock(t)
        \/ WFMO_Consume(t)

SpecSticky == InitSticky /\ [][NextSticky]_vars

NextOrder ==
    \E t \in Threads :
        \/ SetEvent(t)
        \/ WFMO_Call(t) \/ WFMO_Register(t) \/ WFMO_Check(t) \/ WFMO_Wake(t)
        \/ WFMO_TryLock(t) \/ WFMO_Consume(t)
        \/ CondTimeout(t) \/ CondSpurious(t)

SpecOrder == InitOrder /\ [][NextOrder]_vars

NextBroadcast ==
    \E t \in Threads :
        \/ SetEvent(t)
        \/ WaitForEvent_Fast(t) \/ WaitForEvent_Lock(t) \/ WaitForEvent_Wake(t)
        \/ WFMO_Call(t) \/ WFMO_Register(t) \/ WFMO_RegisterLocked(t) \/ WFMO_Wake(t)
        \/ CondSpurious(t)

FairBroadcast == InitBroadcast /\ [][NextBroadcast]_vars /\ Fairness

\* No condition wait wakes without a signal here: a thread stays blocked until it is
\* signalled.
NextClaim ==
    \E t \in Threads :
        \/ SetEvent(t)
        \/ WFMO_Call(t) \/ WFMO_Register(t) \/ WFMO_Check(t) \/ WFMO_Wake(t)
        \/ WFMO_TryLock(t) \/ WFMO_Consume(t)

FairClaim == InitClaim /\ [][NextClaim]_vars /\ Fairness

\* lifecycle: one thread, every call of the interface but PulseEvent; SetEvent finds
\* no waiter that still waits.
NextLifecycle ==
    \E t \in Threads :
        \/ CreateEvent(t) \/ DestroyEvent(t)
        \/ SetEvent_Lock(t) \/ SetEvent_Check(t) \/ SetEvent_Finish(t) \/ SetEvent_Signal(t)
        \/ ResetEvent(t)
        \/ WaitForEvent_Fast(t) \/ WaitForEvent_Fast2(t) \/ WaitForEvent_Call(t)
        \/ WaitForEvent_Lock(t) \/ WaitForEvent_Wake(t) \/ CondTimeout(t)
        \/ WFMO_Call(t) \/ WFMO_Register(t) \/ WFMO_RegisterLocked(t)
        \/ WFMO_Check(t) \/ WFMO_TryLock(t) \/ WFMO_Consume(t)

SpecLifecycle == InitLifecycle /\ [][NextLifecycle]_vars

\* Two auto-reset events, not set.
InitOverlap ==
    /\ scn = "overlap"
    /\ app = NoApp
    /\ Live = 1..2
    /\ AutoReset = [e \in Events |-> e \in Live]
    /\ InitEvents
    /\ State = [e \in Events |-> FALSE]

NextOverlap ==
    \E t \in Threads :
        \/ SetEvent(t)
        \/ WFMO_Call(t) \/ WFMO_Register(t) \/ WFMO_Check(t) \/ WFMO_Wake(t)
        \/ WFMO_TryLock(t) \/ WFMO_Consume(t)
        \/ CondTimeout(t) \/ CondSpurious(t)

\* The threads are scheduled; no wait has to time out or to wake with no signal.
FairOverlap == InitOverlap /\ [][NextOverlap]_vars /\ Fairness

\* blocked: one waiter on each event, with no timeout; no registered wait.
NextBlocked ==
    \E t \in Threads :
        \/ SetEvent_Lock(t) \/ SetEvent_Finish(t) \/ SetEvent_Signal(t)
        \/ WaitForEvent_Fast(t) \/ WaitForEvent_Call(t) \/ WaitForEvent_Lock(t)
        \/ WaitForEvent_Wake(t)
        \/ CondSpurious(t)

FairBlocked == InitBlocked /\ [][NextBlocked]_vars /\ Fairness

PulseEvent(t) ==
    \/ PulseEvent_Set(t) \/ SetEvent_Check(t) \/ SetEvent_Walk(t)
    \/ SetEvent_Finish(t) \/ SetEvent_Signal(t)
    \/ PulseEvent_Reset(t) \/ ResetEvent_Walk(t)

\* pulse: PulseEvent and the waits.
NextPulse ==
    \E t \in Threads :
        \/ PulseEvent(t)
        \/ WaitForEvent_Fast(t) \/ WaitForEvent_Call(t) \/ WaitForEvent_Lock(t)
        \/ WaitForEvent_Wake(t)
        \/ WaitForMultipleEvents(t) \/ CondTimeout(t)

SpecPulse == InitPulse /\ [][NextPulse]_vars

\* A step of the program of thread t in the stress test, between its calls.
Program(t) ==
    \/ Worker_Waited(t) \/ Worker_Enter(t) \/ Worker_Leave(t) \/ Worker_Called(t)
    \/ Worker_Picked(t) \/ Worker_Woke(t) \/ Main_Called(t)

\* rand() draws a thread whose done event is not set.
PickNotDone(t) ==
    app.at[t] = "w_pick" /\ WaitForEvent_Fast(t) /\ rets'[t].result = WAIT_TIMEOUT

\* stress: the test's threads; the deadline of 45 s does not pass.
NextStress ==
    \E t \in Threads :
        \/ Program(t)
        \/ SetEvent(t) \/ WaitForEvent_Fast(t) \/ WaitForEvent_Fast2(t)
        \/ WaitForMultipleEvents(t)

\* The threads are scheduled, and rand() does not draw finished threads for ever.
FairStress ==
    /\ InitStress /\ [][NextStress]_vars
    /\ Fairness
    /\ \A t \in Threads : WF_vars(Program(t)) /\ SF_vars(PickNotDone(t))

\* ------------------------------------------------------------- properties
ArrayEvents(o) == {o.events[k] : k \in DOMAIN o.events}

IsWait(o) == o.f \in {"WaitForEvent", "WaitForMultipleEvents"}

\* The call thread t returned 0 from consumed event e.
ConsumedBy(t, e) ==
    /\ rets[t].result = 0
    /\ \/ rets[t].call.f = "WaitForEvent" /\ rets[t].call.event = e
       \/ /\ rets[t].call.f = "WaitForMultipleEvents"
          /\ IF rets[t].call.waitAll THEN e \in ArrayEvents(rets[t].call)
             ELSE rets[t].call.events[rets[t].index + 1] = e

\* C1: for every auto-reset event, the successful consumptions (WaitForEvent, wait-any
\* completions with its index, wait-all completions that include it) never exceed the
\* SetEvent calls on it plus one if it was created set.
AutoResetExclusivity == \A e \in Events : AutoReset[e] => credit[e] >= 0

\* Two calls consumed event 1, whose signals are all used up, after a SetEvent on it.
ExclusivityWitness ==
    /\ credit[1] = 0 /\ ~State[1]
    /\ rets[1].call = OpSet(1)
    /\ ConsumedBy(2, 1) /\ ConsumedBy(3, 1)

\* C2: the step on which a wait-all call returns 0 consumes one signal of every
\* auto-reset event of its array (signalled before, not signalled after, one
\* consumption counted) and leaves its manual-reset events signalled.
WaitAllConsumesAll ==
    [][\A t \in Threads :
          (op[t].f = "WaitForMultipleEvents" /\ op[t].waitAll
           /\ pc'[t] = "idle" /\ rets'[t].result = 0)
          => \A e \in ArrayEvents(op[t]) :
                /\ State[e]
                /\ IF AutoReset[e] THEN ~State'[e] /\ credit'[e] = credit[e] - 1
                   ELSE State'[e]]_vars

\* A wait-all call on an auto-reset and a manual-reset event has returned 0.
WaitAllConsumesWitness ==
    \E t \in Threads :
        /\ rets[t].call.f = "WaitForMultipleEvents" /\ rets[t].call.waitAll
        /\ rets[t].result = 0
        /\ ArrayEvents(rets[t].call) = 1..2
        /\ AutoReset[1] /\ ~State[1] /\ ~AutoReset[2] /\ State[2]

\* C3: no step of a wait-all call other than the one on which it returns 0 changes the
\* State of any event: a call that returns WAIT_TIMEOUT has changed none.
WaitAllFailureKeepsState ==
    [][\A t \in Threads :
          ((WaitForMultipleEvents(t) \/ CondTimeout(t) \/ CondSpurious(t))
           /\ (op[t].waitAll \/ op'[t].waitAll)
           /\ ~(pc'[t] = "idle" /\ rets'[t].result = 0))
          => State' = State]_vars

\* A wait-all call on both events has timed out; the auto-reset event 1 of its array
\* is still signalled, with a signal that no call consumed, and event 2 is not.
WaitAllFailureWitness ==
    \E t \in Threads :
        /\ rets[t].call.f = "WaitForMultipleEvents" /\ rets[t].call.waitAll
        /\ rets[t].result = WAIT_TIMEOUT
        /\ ArrayEvents(rets[t].call) = 1..2
        /\ AutoReset[1] /\ State[1] /\ credit[1] > 0
        /\ ~State[2]

\* SetEvent handed an auto-reset event to the wait-any call thread t is in.
HandedOff(t) ==
    /\ pc[t] \in {"wm_wait", "wm_woken"} /\ ~op[t].waitAll
    /\ wfmo[loc[t].w].Status # -1
    /\ AutoReset[op[t].events[wfmo[loc[t].w].Status + 1]]

\* C4: a SetEvent on an auto-reset event that returns without a hand-off leaves State
\* true, and a wait-any call to which a SetEvent handed the event returns 0 with the
\* index of that event, also when its timed wait expired meanwhile.
NoLostWakeups ==
    [][\A t \in Threads :
          /\ (pc[t] = "se_walk" /\ pc'[t] \notin {"se_walk", "se_lockw"}
              /\ AutoReset[op[t].event]
              /\ ~loc[t].consumed) => State'[op[t].event]
          /\ (HandedOff(t) /\ pc'[t] = "idle")
             => /\ rets'[t].result = 0
                /\ rets'[t].index = wfmo[loc[t].w].Status]_vars

\* The thread that holds the mutex thread t is blocked acquiring; 0 when t is not
\* blocked.  pthread_mutex_trylock does not block.
BlockedOn(t) ==
    CASE pc[t] = "se_lockw" ->
            wfmo[RegisteredWaits[op[t].event][loc[t].i].Waiter].Mutex
      [] pc[t] \in {"wfe_lock", "wfe_woken"} -> Mutex[op[t].event]
      [] pc[t] = "wm_reg" ->
            LET e == op[t].events[loc[t].i + 1]
            IN  IF ~op[t].waitAll /\ ~AutoReset[e] THEN 0 ELSE Mutex[e]
      [] pc[t] = "wm_reglock" -> Mutex[op[t].events[loc[t].i + 1]]
      [] pc[t] = "wm_woken" -> wfmo[loc[t].w].Mutex
      [] OTHER -> 0

\* The threads reached from t in at most n steps of BlockedOn.
RECURSIVE Chain(_, _)
Chain(t, n) ==
    IF n = 0 \/ BlockedOn(t) = 0 THEN {}
    ELSE {BlockedOn(t)} \cup Chain(BlockedOn(t), n - 1)

\* C5: no reachable state has a cycle of threads each blocked acquiring an event mutex
\* or a coordinator mutex that another thread of the cycle holds.
NoLockCycle == \A t \in Threads : t \notin Chain(t, NThreads)

\* C6: a wait-all call in the try-lock loop of its atomic claim eventually leaves the
\* loop, and every SetEvent call eventually returns, under fair scheduling.
TryLockLoopEnds ==
    /\ \A t \in Threads : (pc[t] = "wm_try") ~> (pc[t] # "wm_try")
    /\ \A t \in Threads : (pc[t] \in {"se_walk", "se_lockw", "se_signal"}) ~> (pc[t] = "idle")

\* Thread t is blocked in the condition wait of a wait-all call with no timeout, and
\* every event of its array is signalled.
BlockedAllSignalled(t) ==
    /\ pc[t] = "wm_wait" /\ op[t].waitAll /\ op[t].milliseconds = WAIT_INFINITE
    /\ \A e \in ArrayEvents(op[t]) : State[e]

\* C7: a wait-all call with no timeout does not stay blocked for ever once every event
\* of its array is signalled and stays signalled, under fair scheduling: it returns.
WaitAllCompletes == \A t \in Threads : []<>~BlockedAllSignalled(t)

BroadcastWakesAll ==
    \A t \in Threads :
        (opsDone[1] = 1 /\ IsWait(op[t]))
            ~> (pc[t] = "idle" /\ IsWait(rets[t].call) /\ rets[t].result = 0)

\* SetEvent sets State while both other threads are blocked in WaitForEvent.
BroadcastWitness ==
    /\ pc[1] = "se_signal" /\ op[1] = OpSet(1)
    /\ \A t \in {2, 3} : pc[t] = "wfe_wait" /\ op[t].event = 1

\* C10: every WaitForEvent(e, 0) of the consumer returns 0.
PollNeverTimesOut ==
    \A t \in Threads : rets[t].call.f = "WaitForEvent" => rets[t].result = 0

\* The consumer, in a later round, is about to take the mutex that a producer holds.
PollWitness ==
    /\ pc[1] = "wfe_lock" /\ opsDone[1] > 1
    /\ Mutex[1] \notin {0, 1}

\* C11: with no other thread at work, a poll for all the events of an array
\* (waitAll, timeout 0) that are all signalled when it is made returns 0, not
\* WAIT_TIMEOUT: the steps before the last change no State, and the last finds every
\* event signalled and returns 0.
WaitAllPollSucceeds ==
    [][\A t \in Threads :
          WaitForMultipleEvents(t) =>
            LET o == IF pc'[t] = "idle" THEN rets'[t].call ELSE op'[t]
            IN  (o.waitAll /\ o.milliseconds = 0) =>
                  /\ pc'[t] # "idle" => State' = State
                  /\ (pc'[t] = "idle" /\ \A e \in ArrayEvents(o) : State[e])
                        => rets'[t].result = 0]_vars

\* A poll for all of three signalled events, one of them at least auto-reset and one
\* manual-reset, has returned 0.
WaitAllPollWitness ==
    /\ rets[1].call.f = "WaitForMultipleEvents" /\ rets[1].call.waitAll
    /\ rets[1].call.milliseconds = 0 /\ Len(rets[1].call.events) = 3
    /\ rets[1].result = 0
    /\ \E e \in Live : AutoReset[e]
    /\ \E e \in Live : ~AutoReset[e]

\* C12: whenever a wait for any event of an array returns 0, the index it stores is
\* one of the array, and the event there is the one that satisfied the wait: found
\* signalled by the registration loop (and consumed then, if auto-reset), or handed to
\* this call by a SetEvent on that very event (which, if the event is auto-reset, uses
\* the signal up instead of setting State).  Every registration of a waiting call
\* carries the position of its event in the call's array.
WaitAnyIndex ==
    [][/\ \A e \in Events : \A k \in DOMAIN RegisteredWaits[e] :
             LET r == RegisteredWaits[e][k]
                 w == r.Waiter
             IN  (wfmo[w].alive /\ ~wfmo[w].WaitAll /\ wfmo[w].StillWaiting)
                    => /\ r.WaitIndex \in 0..(Len(op[Owner(w)].events) - 1)
                       /\ op[Owner(w)].events[r.WaitIndex + 1] = e
       /\ \A t \in Threads : \A w \in WIds :
             (/\ SetEvent_Walk(t)
              /\ wfmo[w].alive /\ ~wfmo[w].WaitAll /\ wfmo[w].Status = -1
              /\ wfmo'[w].alive /\ wfmo'[w].Status # -1)
                => /\ wfmo'[w].Status \in 0..(Len(op[Owner(w)].events) - 1)
                   /\ op[Owner(w)].events[wfmo'[w].Status + 1] = op[t].event
                   /\ AutoReset[op[t].event] => loc'[t].consumed /\ ~State[op[t].event]
       /\ \A t \in Threads :
             (/\ WaitForMultipleEvents(t) /\ pc'[t] = "idle"
              /\ ~rets'[t].call.waitAll /\ rets'[t].result = 0)
                => LET o == rets'[t].call
                       i == rets'[t].index
                   IN  /\ i \in 0..(Len(o.events) - 1)
                       /\ AutoReset[o.events[i + 1]]
                             => credit'[o.events[i + 1]] = credit[o.events[i + 1]] - 1
                       /\ IF pc[t] \in {"idle", "wm_reg", "wm_reglock"}
                          THEN /\ State[o.events[i + 1]]
                               /\ AutoReset[o.events[i + 1]] => ~State'[o.events[i + 1]]
                          ELSE /\ wfmo[loc[t].w].Status = i
                               /\ ~wfmo[loc[t].w].StillWaiting]_vars

\* A wait for any of two events has returned 0 with the index of the second, an
\* auto-reset event, handed over by the SetEvent that thread 1 has not left yet; no
\* other thread has made a call.
WaitAnyIndexWitness ==
    \E t \in Threads \ {1} :
        /\ rets[t].call.f = "WaitForMultipleEvents" /\ ~rets[t].call.waitAll
        /\ Len(rets[t].call.events) = 2
        /\ rets[t].result = 0 /\ rets[t].index = 1
        /\ AutoReset[rets[t].call.events[2]] /\ ~State[rets[t].call.events[2]]
        /\ pc[1] = "se_walk" /\ loc[1].consumed /\ op[1].event = rets[t].call.events[2]
        /\ \A u \in Threads \ {1, t} : opsDone[u] = 0

\* C13: an event of either kind created with initialState true is found signalled by
\* the first WaitForEvent(event, 0), which returns 0; created with initialState false,
\* that poll returns WAIT_TIMEOUT.
InitialStateRoundTrip ==
    [][\A t \in Threads :
          (/\ rets[t].call.f = "CreateEvent"
           /\ rets'[t].call.f = "WaitForEvent"
           /\ rets'[t].call.event = rets[t].call.event
           /\ rets'[t].call.milliseconds = 0)
             => rets'[t].result = IF rets[t].call.initialState THEN 0 ELSE WAIT_TIMEOUT]_vars

\* The first call on a manual-reset event created signalled, a poll, has returned 0.
RoundTripWitness ==
    /\ rets[1].call = OpWait(2, 0) /\ rets[1].result = 0
    /\ opsDone[1] = 2
    /\ Live = {2} /\ ~AutoReset[2] /\ State[2]

\* The step of thread t is the return of a call.
Returns(t) == pc'[t] = "idle" /\ (pc[t] # "idle" \/ opsDone'[t] # opsDone[t])

\* C14: a WaitForEvent that returns 0 on an auto-reset event leaves it unsignalled,
\* so that a WaitForEvent(e, 0) that is the thread's next call, with no SetEvent in
\* between, returns WAIT_TIMEOUT; no step of a WaitForEvent changes the State of an
\* event but the return of 0: a call that returns WAIT_TIMEOUT leaves it as it was.
AutoResetDrain ==
    [][\A t \in Threads :
          /\ (WaitForEvent(t) /\ Returns(t) /\ rets'[t].result = 0
                 /\ AutoReset[rets'[t].call.event])
                => ~State'[rets'[t].call.event]
          /\ (/\ Returns(t)
              /\ rets[t].call.f = "WaitForEvent" /\ rets[t].result = 0
              /\ AutoReset[rets[t].call.event]
              /\ rets'[t].call = OpWait(rets[t].call.event, 0))
                => rets'[t].result = WAIT_TIMEOUT
          /\ ((WaitForEvent(t) \/ CondTimeout(t)) /\ State' # State)
                => Returns(t) /\ rets'[t].result = 0]_vars

\* The first call on an auto-reset event created signalled, a poll, has returned 0 and
\* the event is unsignalled.
DrainWitness ==
    /\ rets[1].call = OpWait(1, 0) /\ rets[1].result = 0
    /\ opsDone[1] = 2
    /\ Live = {1} /\ AutoReset[1] /\ ~State[1] /\ credit[1] = 0

\* C15: a WaitForEvent(e, WAIT_INFINITE) on an unsignalled event returns only 0, and
\* only at a step that finds e signalled, which only a SetEvent(e) makes it; and when
\* it is the only wait on e, a SetEvent(e) called while it is in progress leads to its
\* return of 0, whatever the kind of e.
BlockedUntilSet ==
    /\ [][\A e \in Events :
            (~State[e] /\ State'[e])
               => \E u \in Threads : SetEvent_Finish(u) /\ op[u] = OpSet(e)]_vars
    /\ [][\A t \in Threads :
            (WaitForEvent(t) /\ Returns(t) /\ rets'[t].call.milliseconds = WAIT_INFINITE)
               => State[rets'[t].call.event] /\ rets'[t].result = 0]_vars
    /\ \A t \in {2, 3} :
          (op[t] = OpWait(t - 1, WAIT_INFINITE) /\ \E u \in Threads : op[u] = OpSet(t - 1))
             ~> (rets[t].call = OpWait(t - 1, WAIT_INFINITE) /\ rets[t].result = 0)

\* Thread 2 is blocked on the condition variable of the auto-reset event 1, which a
\* SetEvent has just made signalled and is about to signal.
BlockedWitness ==
    /\ AutoReset[1] /\ State[1]
    /\ pc[2] = "wfe_wait" /\ op[2] = OpWait(1, WAIT_INFINITE)
    /\ pc[1] = "se_signal" /\ op[1] = OpSet(1)

\* The registrations of e made by calls that still wait, for all their events (all
\* TRUE) or for any (all FALSE), in the state with coordinators wf and registrations R.
WaitingOn(R, wf, e, all) ==
    {k \in DOMAIN R[e] : /\ wf[R[e][k].Waiter].alive /\ wf[R[e][k].Waiter].StillWaiting
                         /\ wf[R[e][k].Waiter].WaitAll = all}

\* C17: PulseEvent(e) is SetEvent(e) followed by ResetEvent(e): when its SetEvent
\* part ends without having used the signal up, no call waiting for any event is left
\* registered on e (each was handed the event); and when PulseEvent returns, no thread
\* having called SetEvent, e is not signalled and no call waiting for all its events
\* holds e as signalled.
PulseIsSetThenReset ==
    [][\A t \in Threads :
          /\ (SetEvent_Finish(t) /\ op[t].f = "PulseEvent" /\ ~loc[t].consumed)
                => WaitingOn(RegisteredWaits, wfmo, op[t].event, FALSE) = {}
          /\ (Returns(t) /\ rets'[t].call.f = "PulseEvent")
                => /\ ~State'[rets'[t].call.event]
                   /\ \A k \in WaitingOn(RegisteredWaits', wfmo', rets'[t].call.event, TRUE) :
                         ~RegisteredWaits'[rets'[t].call.event][k].Signalled]_vars

\* PulseEvent has returned, and a call still waits for all of two events, of which it
\* found the other signalled: the pulse did not complete it.
PulseWitness ==
    /\ rets[1].call.f = "PulseEvent" /\ opsDone[1] = 1
    /\ pc[2] = "wm_wait" /\ Len(op[2].events) = 2
    /\ wfmo[loc[2].w].Status = 1
    /\ WaitingOn(RegisteredWaits, wfmo, rets[1].call.event, TRUE) # {}

\* The registrations that refer to the coordinator w, in the registries R.
RegistrationsOf(R, w) ==
    UNION {{<<e, k>> : k \in {j \in DOMAIN R[e] : R[e][j].Waiter = w}} : e \in Events}

\* The registrations of the registry regs whose call is over, that refer to w.
Expired(regs, wf, w) ==
    {k \in DOMAIN regs : regs[k].Waiter = w /\ ~wf[w].StillWaiting}

\* C18: DestroyEvent(e) removes every registration of e whose call is over and takes
\* one reference off its coordinator for each, destroying the coordinator with the
\* last; so a coordinator whose call has returned holds exactly one reference for each
\* registration that is left in an event: it is destroyed once every event it
\* registered on has been swept or destroyed, and none is leaked.
DestroyPurges ==
    /\ [][\A t \in Threads : \A w \in WIds :
            (DestroyEvent(t) /\ Expired(RegisteredWaits[rets'[t].call.event], wfmo, w) # {})
               => LET n == Cardinality(Expired(RegisteredWaits[rets'[t].call.event], wfmo, w))
                  IN  /\ RegistrationsOf(RegisteredWaits', w)
                            = {x \in RegistrationsOf(RegisteredWaits, w) :
                                 x[1] # rets'[t].call.event}
                      /\ IF wfmo[w].RefCount = n THEN ~wfmo'[w].alive
                         ELSE wfmo'[w].alive /\ wfmo'[w].RefCount = wfmo[w].RefCount - n]_vars
    /\ [](\A w \in WIds :
            (wfmo[w].alive /\ ~wfmo[w].StillWaiting)
               => /\ wfmo[w].RefCount = Cardinality(RegistrationsOf(RegisteredWaits, w))
                  /\ wfmo[w].RefCount > 0)

\* Event 1 was destroyed with the registration of a poll of the array <<1, 2>> that
\* was over: the coordinator is left with one reference, for its registration in
\* event 2.
DestroyWitness ==
    /\ rets[1].call = OpDestroy(1)
    /\ Live = {2}
    /\ \E k \in DOMAIN RegisteredWaits[2] :
          /\ RegisteredWaits[2][k].WaitIndex = 1
          /\ wfmo[RegisteredWaits[2][k].Waiter].alive
          /\ ~wfmo[RegisteredWaits[2][k].Waiter].StillWaiting
          /\ wfmo[RegisteredWaits[2][k].Waiter].RefCount = 1

\* C20: a coordinator is deleted by the decrement that takes its last reference, and
\* by no other: no assertion on a reference count fails and no decrement reaches a
\* deleted coordinator; a coordinator in use has a positive reference count; every
\* registration left in an event, which SetEvent, ResetEvent, a consumption or a sweep
\* may read, refers to a coordinator that is not deleted, and so does every thread
\* inside WaitForMultipleEvents.
RefCountedTeardown ==
    /\ err \cap {"ref_count > 0", "use after delete"} = {}
    /\ \A w \in WIds : wfmo[w].alive => wfmo[w].RefCount > 0
    /\ \A w \in WIds : ~wfmo[w].alive => wfmo[w].RefCount = 0
    /\ \A e \in Events : \A k \in DOMAIN RegisteredWaits[e] :
          wfmo[RegisteredWaits[e][k].Waiter].alive
    /\ \A t \in Threads :
          pc[t] \in {"wm_reg", "wm_reglock", "wm_check", "wm_try", "wm_claimed", "wm_wait",
                     "wm_woken"}
             => wfmo[loc[t].w].alive /\ Owner(loc[t].w) = t

\* A wait for any of two events, handed the first by SetEvent, has returned and its
\* coordinator is still referred to by its registration in the second event, with
\* one reference.
TeardownWitness ==
    \E t \in Threads \ {1} : \E k \in DOMAIN RegisteredWaits[2] :
        /\ rets[t].call = OpMulti(<<1, 2>>, FALSE, TimedMs)
        /\ rets[t].result = 0 /\ rets[t].index = 0
        /\ Owner(RegisteredWaits[2][k].Waiter) = t
        /\ wfmo[RegisteredWaits[2][k].Waiter].RefCount = 1
        /\ ~wfmo[RegisteredWaits[2][k].Waiter].StillWaiting

\* The wait o is not satisfied in the state S of the events.
Unsatisfied(o, S) ==
    IF o.f = "WaitForEvent" THEN ~S[o.event]
    ELSE IF o.waitAll THEN \E e \in ArrayEvents(o) : ~S[e]
    ELSE \A e \in ArrayEvents(o) : ~S[e]

\* C19: WaitForEvent and WaitForMultipleEvents return 0 or WAIT_TIMEOUT only, and
\* WAIT_TIMEOUT only when the wait was not satisfied within the timeout: never when
\* the timeout is WAIT_INFINITE; at once, without blocking, from a state where the
\* wait is not satisfied, when the timeout is 0; otherwise after the timed condition
\* wait has timed out.  SetEvent, ResetEvent and DestroyEvent return 0.
ResultCodes ==
    [][\A t \in Threads :
          /\ pc'[t] \in {"wfe_wait", "wm_wait"} => op'[t].milliseconds # 0
          /\ Returns(t) =>
                LET o == rets'[t].call
                    result == rets'[t].result
                IN  /\ IsWait(o) => result \in {0, WAIT_TIMEOUT}
                    /\ (IsWait(o) /\ result = WAIT_TIMEOUT) =>
                          /\ o.milliseconds # WAIT_INFINITE
                          /\ IF o.milliseconds = 0
                             THEN Unsatisfied(o, State)
                             ELSE pc[t] \in {"wfe_woken", "wm_woken"}
                                  /\ loc[t].result = WAIT_TIMEOUT
                    /\ o.f \in {"SetEvent", "ResetEvent", "DestroyEvent"} => result = 0]_vars

\* The first call on an event created unsignalled, a wait with a timeout, blocked and
\* has returned WAIT_TIMEOUT.
ResultCodesWitness ==
    /\ rets[1].call = OpWait(1, TimedMs) /\ rets[1].result = WAIT_TIMEOUT
    /\ opsDone[1] = 2 /\ Live = {1}

\* The worker t is in its critical section, from the check of shared_resource to
\* shared_resource = -1.
InCritical(t) == app.at[t] \in {"w_enter", "w_crit"}

\* C16: in the stress test (each worker waits for any of its auto-reset event and the
\* manual-reset shutdown event, main wakes worker 0, and a worker that leaves its
\* critical section wakes one thread that has not finished), at most one worker is in
\* the critical section at a time, shutdown is never set, and every worker ends.
TokenPassing ==
    /\ [](Cardinality({t \in WorkerThreads : InCritical(t)}) <= 1)
    /\ [](~State[Shutdown] /\ \A t \in WorkerThreads : app.at[t] # "w_shutdown")
    /\ <>(\A t \in WorkerThreads : app.at[t] = "end")

\* A thread is inside the call of WaitForMultipleEvents that made the coordinator w.
InCall(w) ==
    \E t \in Threads :
        /\ pc[t] \in {"wm_reg", "wm_reglock", "wm_check", "wm_try", "wm_claimed", "wm_wait",
                     "wm_woken"}
        /\ loc[t].w = w

\* The coordinator of the call of WaitForMultipleEvents thread t makes or is in.
CoordinatorOf(t) == IF pc[t] = "idle" THEN WIdOf(t, FirstFree(t)) ELSE loc[t].w

\* C21: once the call that made a coordinator has taken off its 1 + skipped_refs
\* references, the coordinator's reference count is the number of registrations that
\* refer to it in all the events (none when it is deleted).  A wait for any of N
\* events that ends in its registration loop at index i has registered on exactly
\* the i events before and takes off 1 + (N - i); a wait for all of N events has
\* registered on all N and takes off 1, as does a wait for any that ends later.
RefCountAccounting ==
    /\ [](\A w \in WIds :
            /\ (wfmo[w].alive /\ ~InCall(w))
                  => wfmo[w].RefCount = Cardinality(RegistrationsOf(RegisteredWaits, w))
            /\ ~wfmo[w].alive => RegistrationsOf(RegisteredWaits, w) = {})
    /\ [][\A t \in Threads :
            (Returns(t) /\ rets'[t].call.f = "WaitForMultipleEvents")
               => LET o == rets'[t].call
                      N == Len(o.events)
                      w == CoordinatorOf(t)
                      before == IF pc[t] = "idle" THEN 1 + N ELSE wfmo[w].RefCount
                      i == rets'[t].index
                  IN  IF /\ ~o.waitAll /\ rets'[t].result = 0
                         /\ pc[t] \in {"idle", "wm_reg", "wm_reglock"}
                      THEN /\ i \in 0..(N - 1)
                           /\ {x[1] : x \in RegistrationsOf(RegisteredWaits', w)}
                                 = {o.events[k] : k \in 1..i}
                           /\ Cardinality(RegistrationsOf(RegisteredWaits', w)) = i
                           /\ before = 1 + N
                           /\ wfmo'[w].RefCount = before - (1 + (N - i))
                      ELSE /\ wfmo'[w].RefCount = before - 1
                           /\ o.waitAll
                                 => /\ before = 1 + N
                                    /\ Cardinality(RegistrationsOf(RegisteredWaits, w)) = N
                                    /\ Cardinality(RegistrationsOf(RegisteredWaits', w)) = N
               ]_vars

\* With no SetEvent called, a wait for any of the events <<1, 2>> has found event 2
\* signalled in its registration loop (index 1): it is registered on event 1 only and
\* its coordinator is left with that one reference.
RefCountWitness ==
    \E t \in Threads : \E w \in WIds :
        /\ rets[t].call.f = "WaitForMultipleEvents" /\ ~rets[t].call.waitAll
        /\ rets[t].call.events = <<1, 2>>
        /\ rets[t].result = 0 /\ rets[t].index = 1
        /\ opsDone[1] = 0
        /\ Owner(w) = t /\ wfmo[w].alive /\ wfmo[w].RefCount = 1
        /\ {x[1] : x \in RegistrationsOf(RegisteredWaits, w)} = {1}

\* Thread t, in the atomic claim, is about to take the mutex of an event of its array
\* that is not signalled.
ClaimFails(t) ==
    /\ pc[t] = "wm_try"
    /\ Mutex[op[t].events[loc[t].i + 1]] = 0
    /\ ~State[op[t].events[loc[t].i + 1]]

\* The events of the array es that are not signalled in the state S.
Unsignalled(es, S) == {k \in DOMAIN es : ~S[es[k]]}

SucceededOn(u) ==
    IF ~(Returns(u) /\ IsWait(rets'[u].call) /\ rets'[u].result = 0) THEN {}
    ELSE IF rets'[u].call.f = "WaitForEvent" THEN {rets'[u].call.event}
    ELSE IF rets'[u].call.waitAll THEN ArrayEvents(rets'[u].call)
    ELSE {rets'[u].call.events[rets'[u].index + 1]}

\* Thread t has claimed the events of its array: it is between the last check of the
\* atomic claim and the consumption of the events.
Claimed(t) == pc[t] = "wm_claimed"

\* A wait for all returns 0 only from a state in which it held the mutex of every
\* event of its array and every one of them was signalled, and it holds them all, all
\* signalled, from the last check of its claim to the consumption.
ClaimInstant ==
    /\ [][\A t \in Threads :
            (Returns(t) /\ rets'[t].call.f = "WaitForMultipleEvents"
             /\ rets'[t].call.waitAll /\ rets'[t].result = 0)
               => Claimed(t)]_vars
    /\ [](\A t \in Threads :
            Claimed(t) => \A e \in ArrayEvents(op[t]) : Mutex[e] = t /\ State[e])

ResetUndoesClaims ==
    /\ [](\A t \in Threads :
            pc[t] = "rs_walk" => ~State[op[t].event] /\ Mutex[op[t].event] = t)
    /\ [][\A t \in Threads :
            ResetEvent_Walk(t)
               => LET e == op[t].event
                      regs == RegisteredWaits[e]
                      i == loc[t].i
                  IN  IF i > Len(regs)
                      THEN /\ Returns(t) /\ ~State'[e]
                           /\ \A k \in WaitingOn(RegisteredWaits', wfmo', e, TRUE) :
                                 ~RegisteredWaits'[e][k].Signalled
                           /\ RegisteredWaits' = RegisteredWaits /\ wfmo' = wfmo
                      ELSE wfmo[regs[i].Waiter].StillWaiting
                              => LET w == regs[i].Waiter
                                 IN  /\ IF regs[i].Signalled /\ wfmo[w].WaitAll
                                        THEN /\ RegisteredWaits'[e][i] =
                                                   [regs[i] EXCEPT !.Signalled = FALSE]
                                             /\ wfmo' =
                                                   [wfmo EXCEPT ![w].Status = @ + 1]
                                        ELSE /\ RegisteredWaits'[e][i] = regs[i]
                                             /\ wfmo' = wfmo
                                     /\ Len(RegisteredWaits'[e]) = Len(regs)
                                     /\ \A k \in DOMAIN regs \ {i} :
                                           RegisteredWaits'[e][k] = regs[k]
                                     /\ \A x \in Events \ {e} :
                                           RegisteredWaits'[x] = RegisteredWaits[x]
                                     /\ State' = State]_vars

\* The only call made by thread 1, a ResetEvent, has returned, no WaitForEvent was
\* called, and a wait for all, in its atomic claim, has EventsLeft at 1: it had found
\* every event of its array signalled and the reset took one back.
ResetUndoWitness ==
    /\ rets[1].call.f = "ResetEvent" /\ opsDone[1] = 1 /\ pc[1] = "idle"
    /\ \E t \in Threads \ {1} :
          /\ pc[t] = "wm_try" /\ wfmo[loc[t].w].Status = 1
          /\ \A u \in Threads \ {1, t} : opsDone[u] = 0
          /\ \E k \in DOMAIN RegisteredWaits[rets[1].call.event] :
                /\ RegisteredWaits[rets[1].call.event][k].Waiter = loc[t].w
                /\ ~RegisteredWaits[rets[1].call.event][k].Signalled

\* The auto-reset events whose signal the step consumes: signalled before, not after,
\* on the step on which a wait that succeeded on them returns.
Drained ==
    {e \in Events : /\ AutoReset[e] /\ State[e] /\ ~State'[e]
                    /\ \E u \in Threads : e \in SucceededOn(u)}

\* The coordinator w is registered on e and holds it as signalled.
HoldsSignalled(R, w, e) ==
    \E k \in DOMAIN R[e] : R[e][k].Waiter = w /\ R[e][k].Signalled

\* C25: on the step on which a successful wait (WaitForEvent, a wait for any in its
\* registration loop, the atomic consumption of a wait for all) consumes the signal of
\* an auto-reset event e, made with e's mutex held by the consuming thread, every
\* registration on e of a wait for all has its Signalled flag cleared, and EventsLeft
\* of each coordinator of a call that still waits for all grows by exactly one for
\* each consumed event it held as signalled, and by nothing else.  (The registration
\* of a call that is over may have been swept instead, by a registration loop.)
DrainUndoesClaims ==
    [][Drained # {} =>
          /\ \A e \in Drained :
                /\ \E u \in Threads : e \in SucceededOn(u) /\ Mutex[e] \in {0, u}
                /\ \A k \in DOMAIN RegisteredWaits'[e] :
                      wfmo'[RegisteredWaits'[e][k].Waiter].WaitAll
                         => ~RegisteredWaits'[e][k].Signalled
          /\ \A w \in WIds :
                (wfmo[w].StillWaiting /\ wfmo'[w].alive /\ wfmo[w].WaitAll)
                   => wfmo'[w].Status = wfmo[w].Status
                         + Cardinality({e \in Drained :
                                          HoldsSignalled(RegisteredWaits, w, e)})]_vars

\* With no SetEvent or ResetEvent called, a thread has consumed the auto-reset event 1
\* and another, waiting for all of an array that holds it, is in its atomic claim with
\* EventsLeft at 1: it had found every event signalled, and the consumption took
\* event 1 back.
DrainUndoWitness ==
    \E t \in Threads : \E u \in Threads \ {t} :
        /\ opsDone[1] = 0
        /\ pc[t] = "wm_try" /\ wfmo[loc[t].w].Status = 1
        /\ 1 \in ArrayEvents(op[t]) /\ AutoReset[1] /\ ~State[1]
        /\ IsWait(rets[u].call) /\ rets[u].result = 0
        /\ \E k \in DOMAIN RegisteredWaits[1] :
              /\ RegisteredWaits[1][k].Waiter = loc[t].w
              /\ ~RegisteredWaits[1][k].Signalled

\* events_skipped of the registration loop that made the coordinator w, as long as it
\* has not been taken off EventsLeft.
PendingSkipped(w) ==
    IF pc[Owner(w)] = "wm_reg" /\ loc[Owner(w)].w = w
    THEN loc[Owner(w)].events_skipped ELSE 0

\* The registrations of w that hold their event as signalled.
Counted(R, w) == {x \in RegistrationsOf(R, w) : R[x[1]][x[2]].Signalled}

\* The events the coordinator w, made for a wait for all, waits for: EventsLeft
\* before the registration loop.
CountOf(w) ==
    Cardinality(RegistrationsOf(RegisteredWaits, w))
       + (IF pc[Owner(w)] = "wm_reg" /\ loc[Owner(w)].w = w
          THEN Len(op[Owner(w)].events) - loc[Owner(w)].i ELSE 0)

\* C26: a step of SetEvent on a registration, of a call that still waits for all its
\* events, that already holds the event as signalled changes neither EventsLeft nor
\* any registration; and each registration stands for at most one decrement:
\* EventsLeft of a call that still waits for all its events is the number of its
\* events less the number of its registrations that hold their event as signalled.
SetEventIdempotent ==
    /\ [][\A t \in Threads :
            (SetEvent_Walk(t)
             /\ wfmo[RegisteredWaits[op[t].event][loc[t].i].Waiter].StillWaiting
             /\ wfmo[RegisteredWaits[op[t].event][loc[t].i].Waiter].WaitAll
             /\ RegisteredWaits[op[t].event][loc[t].i].Signalled)
               => /\ wfmo' = wfmo /\ RegisteredWaits' = RegisteredWaits
                  /\ State' = State /\ loc'[t].i = loc[t].i + 1]_vars
    /\ [](\A w \in WIds :
            (wfmo[w].StillWaiting /\ wfmo[w].WaitAll)
               => wfmo[w].Status - PendingSkipped(w)
                     = CountOf(w) - Cardinality(Counted(RegisteredWaits, w)))

\* Thread 1, whose last call was SetEvent on the same event, is in SetEvent again and
\* has walked over the registration of a call that waits for all of two events and
\* held the event as signalled already: EventsLeft is still 1.
IdempotentWitness ==
    LET e == op[1].event
    IN  /\ pc[1] = "se_walk" /\ rets[1].call = OpSet(e) /\ loc[1].i = 2
        /\ RegisteredWaits[e][1].Signalled
        /\ wfmo[RegisteredWaits[e][1].Waiter].WaitAll
        /\ wfmo[RegisteredWaits[e][1].Waiter].StillWaiting
        /\ wfmo[RegisteredWaits[e][1].Waiter].Status = 1
        /\ Cardinality(RegistrationsOf(RegisteredWaits, RegisteredWaits[e][1].Waiter)) = 2

\* The registration r is one of a call that waits for any of its events and still
\* waits.
LiveWaitAny(r) == wfmo[r.Waiter].StillWaiting /\ ~wfmo[r.Waiter].WaitAll

\* The place, in insertion order, of the first registration on e of a call that waits
\* for any of its events and still waits; 0 when there is none.
FirstLiveWaitAny(e) ==
    LET regs == RegisteredWaits[e]
        live == {j \in 1..Len(regs) : LiveWaitAny(regs[j])}
    IN  IF live = {} THEN 0 ELSE CHOOSE j \in live : \A k \in live : j <= k

\* C27: a step of the walk of SetEvent over the registered waits of an auto-reset
\* event is taken only while nothing was handed over; at the first registration, in
\* insertion order, of a call that waits for any of its events and still waits, it
\* records the fired event, ends that wait, erases the registration, marks the
\* signal consumed and leaves State false; at any other registration it releases no
\* such call and consumes nothing. The walk leaves no such registration behind it.
\* Once the signal is consumed SetEvent returns with State false, the registered
\* waits and every coordinator as they were; when nothing was consumed State is set
\* to true.
SetEventHandOff ==
    /\ [][\A t \in Threads :
            (SetEvent_Walk(t) /\ AutoReset[op[t].event])
               => LET e == op[t].event
                      i == loc[t].i
                      r == RegisteredWaits[e][i]
                  IN  /\ ~loc[t].consumed
                      /\ IF FirstLiveWaitAny(e) = i
                         THEN /\ loc'[t].consumed
                              /\ wfmo'[r.Waiter].Status = r.WaitIndex
                              /\ ~wfmo'[r.Waiter].StillWaiting
                              /\ RegisteredWaits'[e] = Erase(RegisteredWaits[e], i)
                              /\ ~State[e] /\ State' = State
                              /\ \A w \in WIds \ {r.Waiter} : wfmo'[w] = wfmo[w]
                         ELSE /\ ~loc'[t].consumed
                              /\ State' = State
                              /\ \A w \in WIds :
                                    (wfmo[w].StillWaiting /\ ~wfmo[w].WaitAll)
                                       => wfmo'[w] = wfmo[w]]_vars
    /\ [][\A t \in Threads :
            (SetEvent_Finish(t) /\ AutoReset[op[t].event])
               => /\ wfmo' = wfmo /\ RegisteredWaits' = RegisteredWaits
                  /\ IF loc[t].consumed
                     THEN ~State[op[t].event] /\ State' = State
                     ELSE /\ State'[op[t].event]
                          /\ FirstLiveWaitAny(op[t].event) = 0]_vars
    /\ [](\A t \in Threads :
            (pc[t] \in {"se_walk", "se_lockw"} /\ AutoReset[op[t].event])
               => \/ FirstLiveWaitAny(op[t].event) = 0
                  \/ FirstLiveWaitAny(op[t].event) >= loc[t].i)

\* SetEvent has handed the signal of an auto-reset event to the first of two calls
\* that wait for any of their events: the second still waits, registered, and State
\* is false.
HandOffWitness ==
    \E t \in Threads :
        /\ pc[t] = "se_walk" /\ loc[t].consumed
        /\ AutoReset[op[t].event] /\ ~State[op[t].event]
        /\ FirstLiveWaitAny(op[t].event) # 0

\* The coordinator of the registration SetEvent, called by thread t, is at.
WaiterAt(t) == RegisteredWaits[op[t].event][loc[t].i].Waiter

\* C28: once the fired event of a call that waits for any of its events is recorded,
\* or the call has left, StillWaiting is false and neither changes again while the
\* coordinator lives; and a SetEvent that comes to a registration of such a call,
\* on either reading of StillWaiting (the second with the coordinator's mutex held),
\* erases the registration, changes neither the fired event nor State, and consumes
\* nothing: its walk goes on, to another waiter or to State true.
AbsorbsOneSignal ==
    /\ [][\A w \in WIds :
            (wfmo[w].alive /\ ~wfmo[w].WaitAll /\ ~wfmo[w].StillWaiting /\ wfmo'[w].alive)
               => /\ wfmo'[w].Status = wfmo[w].Status
                  /\ ~wfmo'[w].StillWaiting]_vars
    /\ [][\A t \in Threads :
            ((SetEvent_Check(t) \/ SetEvent_Walk(t))
             /\ ~wfmo[WaiterAt(t)].WaitAll /\ ~wfmo[WaiterAt(t)].StillWaiting)
               => /\ RegisteredWaits'[op[t].event]
                        = Erase(RegisteredWaits[op[t].event], loc[t].i)
                  /\ State' = State
                  /\ ~loc'[t].consumed /\ loc'[t].i = loc[t].i /\ pc'[t] = "se_walk"
                  /\ SetEvent_Walk(t) => wfmo[WaiterAt(t)].Mutex = 0]_vars
    /\ [][\A t \in Threads :
            (SetEvent_Finish(t) /\ ~loc[t].consumed) => State'[op[t].event]]_vars

\* A SetEvent on an auto-reset event read StillWaiting true and is about to lock the
\* coordinator of a call that waits for any of its events; meanwhile another SetEvent
\* recorded another event of the array as the fired one.
AbsorbWitness ==
    \E t \in Threads :
        /\ pc[t] = "se_lockw" /\ AutoReset[op[t].event]
        /\ ~wfmo[WaiterAt(t)].WaitAll /\ ~wfmo[WaiterAt(t)].StillWaiting
        /\ wfmo[WaiterAt(t)].Mutex = 0
        /\ wfmo[WaiterAt(t)].Status \notin
              {-1, RegisteredWaits[op[t].event][loc[t].i].WaitIndex}

\* The condition of the wait loop of WaitForMultipleEvents that thread t is in, to go
\* on: the fired event is recorded (wait for any), or no event is left (wait for all).
ProgressWfmo(t) ==
    IF op[t].waitAll THEN wfmo[loc[t].w].Status = 0 ELSE wfmo[loc[t].w].Status # -1

\* C29: a condition wait that returns 0 while the event is unsignalled (WaitForEvent),
\* the fired event unrecorded (wait for any) or some event left (wait for all) is
\* made again, and nothing is returned or consumed; a wait for all that returns 0
\* with no event left goes on to its claim, and a claim that fails returns no 0; and
\* a call returns 0 after a condition wait only from the event signalled, the fired
\* event recorded, or all the events of the array locked and signalled.
SpuriousNeverSucceeds ==
    [][\A t \in Threads :
          /\ (WaitForEvent_Wake(t) /\ loc[t].result = 0 /\ ~State[op[t].event])
                => pc'[t] = "wfe_wait" /\ rets' = rets /\ State' = State
          /\ (WFMO_Wake(t) /\ loc[t].result = 0 /\ ~ProgressWfmo(t))
                => /\ pc'[t] = "wm_wait" /\ rets' = rets /\ State' = State
                   /\ wfmo'[loc[t].w].StillWaiting
          /\ (WFMO_Wake(t) /\ loc[t].result = 0 /\ ProgressWfmo(t) /\ op[t].waitAll)
                => pc'[t] = "wm_try" /\ rets' = rets
          /\ (WFMO_TryLock(t) /\ ClaimFails(t))
                => ~(Returns(t) /\ rets'[t].result = 0) /\ State' = State
          /\ (Returns(t) /\ rets'[t].result = 0 /\ pc[t] = "wfe_woken")
                => State[op[t].event]
          /\ (Returns(t) /\ rets'[t].result = 0 /\ pc[t] = "wm_woken")
                => ~op[t].waitAll /\ ProgressWfmo(t)
          /\ (Returns(t) /\ rets'[t].result = 0 /\ pc[t] \in {"wm_try", "wm_claimed"})
                => /\ pc[t] = "wm_claimed"
                   /\ \A e \in ArrayEvents(op[t]) : State[e] /\ Mutex[e] = t]_vars

\* No event was ever set and thread 1 has made no call: the condition waits of
\* thread 2, in WaitForMultipleEvents, and of thread 3, in WaitForEvent, have
\* returned 0 with no signal.
SpuriousWitness ==
    /\ opsDone[1] = 0 /\ \A e \in Live : ~State[e] /\ credit[e] = 0
    /\ pc[2] = "wm_woken" /\ loc[2].result = 0 /\ ~ProgressWfmo(2)
    /\ pc[3] = "wfe_woken" /\ loc[3].result = 0

\* A step of the code of thread t, in any call of the interface.
CodeStep(t) == Step(t) \/ PulseEvent(t) \/ CreateEvent(t) \/ DestroyEvent(t)

\* The coordinators that have more registrations on e after the step than before.
Appended(e) ==
    {w \in WIds :
        Cardinality({k \in DOMAIN RegisteredWaits'[e] : RegisteredWaits'[e][k].Waiter = w})
           > Cardinality({k \in DOMAIN RegisteredWaits[e] : RegisteredWaits[e][k].Waiter = w})}

\* C30: a step that changes the State of an event that exists before and after it,
\* or its registered waits (a registration appended, erased, or its flag changed),
\* is a step of the code of a thread that holds the mutex of the event, or takes it
\* in that step, no other thread holding it; and the thread that appends a
\* registration is in WaitForMultipleEvents and holds the mutex of the coordinator the
\* registration refers to, which it has just made or made earlier in the call.
EventLockDiscipline ==
    [][\A e \in Live \cap Live' :
          /\ (State'[e] # State[e] \/ RegisteredWaits'[e] # RegisteredWaits[e])
                => \E t \in Threads : CodeStep(t) /\ Mutex[e] \in {0, t}
          /\ \A w \in Appended(e) :
                \E t \in Threads :
                   /\ Owner(w) = t /\ Mutex[e] = 0
                   /\ \/ WFMO_Call(t) /\ ~wfmo[w].alive
                      \/ /\ WFMO_Register(t) \/ WFMO_RegisterLocked(t)
                         /\ wfmo[w].alive /\ wfmo[w].Mutex = t /\ loc[t].w = w]_vars

\* Thread 2, in the registration loop with the mutex of its coordinator held, has
\* appended a registration on the first event of its array, and is to lock the
\* second, whose mutex thread 1 holds.
LockDisciplineWitness ==
    /\ pc[2] = "wm_reg" /\ loc[2].i = 1
    /\ wfmo[loc[2].w].Mutex = 2
    /\ \E k \in DOMAIN RegisteredWaits[op[2].events[1]] :
          RegisteredWaits[op[2].events[1]][k].Waiter = loc[2].w
    /\ Mutex[op[2].events[2]] = 1

\* ------------------------------------------- the adapter for Windows
\* src/win32.cpp and the _WIN32 branch of src/src/pevents.cpp: WaitForEvent and
\* WaitForMultipleEvents call WaitForSingleObject and WaitForMultipleObjects, whose
\* timeout is a DWORD.  The widths are scaled: a DWORD (uint32_t) has HostBits bits
\* and a uint64_t twice as many; the arithmetic is that of the code, modulo the width.
HostBits == 3

DWord == 2 ^ HostBits                   \* uint32_t: 0 .. DWord - 1
QWord == 2 ^ (2 * HostBits)             \* uint64_t: 0 .. QWord - 1
INFINITE == DWord - 1                   \* 0xFFFFFFFF
WAIT_INFINITE_64 == QWord - 1           \* WAIT_INFINITE, (uint64_t) -1
WAIT_OBJECT_0 == 0
WAIT_ABANDONED == 128                   \* 0x80, WAIT_ABANDONED_0
WAIT_TIMEOUT_HOST == 258                \* WAIT_TIMEOUT of Windows.h
WAIT_FAILED == -1                       \* (DWORD) 0xFFFFFFFF, all ones
LastErrors == {5, 6}                    \* GetLastError(): ERROR_ACCESS_DENIED, ERROR_INVALID_HANDLE

AdapterFiles == {"win32.cpp", "pevents.cpp"}

\* The values WaitForSingleObject (count = 1 handle, f = "WaitForEvent") or
\* WaitForMultipleObjects may return for the timeout given: the wait is satisfied,
\* abandoned, fails, or times out, which a wait with INFINITE never does.
HostResults(f, count, timeout) ==
    {WAIT_OBJECT_0 + k : k \in 0..((IF f = "WaitForEvent" THEN 1 ELSE count) - 1)}
    \cup {WAIT_ABANDONED + k : k \in 0..((IF f = "WaitForEvent" THEN 1 ELSE count) - 1)}
    \cup {WAIT_FAILED}
    \cup (IF timeout = INFINITE THEN {} ELSE {WAIT_TIMEOUT_HOST})

\* static_cast<uint32_t>(milliseconds)
CastDWord(milliseconds) == milliseconds % DWord

\* milliseconds == WAIT_INFINITE || (milliseconds >> 32) == 0: one host wait is made,
\* with the timeout cast to 32 bits.
FitsHost(milliseconds) ==
    milliseconds = WAIT_INFINITE_64 \/ milliseconds \div DWord = 0

\* uint32_t result = ... in the else branch of src/win32.cpp declares a second
\* variable, which hides the result the function returns from; src/src/pevents.cpp
\* assigns to the one variable.
Shadows(file) == file = "win32.cpp"

\* The adapter's call has not started.
NoAdapter == [file |-> "none", f |-> "none", count |-> 0, milliseconds |-> 0, at |-> "call",
              result |-> 0, inner |-> 0, rounds |-> 0, remainder |-> 0, calls |-> <<>>,
              ret |-> 0, index |-> -1]

\* A call of WaitForEvent or WaitForMultipleEvents (on 1 or 2 handles) of either file,
\* with any 64-bit timeout; result = 0, and the caller's index is -1.
InitWin32 ==
    /\ scn = "win32"
    /\ app \in {[NoAdapter EXCEPT !.file = x[1], !.f = x[2], !.count = x[3],
                                  !.milliseconds = x[4]] :
                  x \in AdapterFiles \X {"WaitForEvent", "WaitForMultipleEvents"}
                        \X (1..2) \X (0..(QWord - 1))}
    /\ Live = {}
    /\ AutoReset = [e \in Events |-> FALSE]
    /\ InitEvents

\* The host wait with the timeout given returns r: the variable in scope takes it.
HostWait(a, timeout, r, chunked) ==
    [a EXCEPT !.calls = Append(@, [timeout |-> timeout, result |-> r]),
              !.result = IF chunked /\ Shadows(a.file) THEN @ ELSE r,
              !.inner = IF chunked /\ Shadows(a.file) THEN r ELSE @]

\* The result the loop of the else branch tests.
LoopResult(a) == IF Shadows(a.file) THEN a.inner ELSE a.result

\* The call up to the first host wait: the one wait of a timeout that fits, or
\* waitUnit, rounds, remainder and the wait of the remainder.
Win32_Call ==
    /\ scn = "win32" /\ app.at = "call"
    /\ LET ms == app.milliseconds
           waitUnit == INFINITE - 1
       IN  IF FitsHost(ms)
           THEN \E r \in HostResults(app.f, app.count, CastDWord(ms)) :
                   app' = [HostWait(app, CastDWord(ms), r, FALSE) EXCEPT !.at = "ret"]
           ELSE \E r \in HostResults(app.f, app.count, ms % waitUnit) :
                   app' = [HostWait([app EXCEPT !.rounds = ms \div waitUnit,
                                                !.remainder = ms % waitUnit],
                                    ms % waitUnit, r, TRUE)
                            EXCEPT !.at = "loop"]
    /\ UNCHANGED <<scn, Live, AutoReset, State, Mutex, RegisteredWaits, wfmo, pc, op, loc,
                   opsDone, rets, credit, err>>

\* while (result == WAIT_TIMEOUT && rounds-- != 0) result = host wait of waitUnit
Win32_Loop ==
    /\ scn = "win32" /\ app.at = "loop"
    /\ IF LoopResult(app) # WAIT_TIMEOUT_HOST
       THEN app' = [app EXCEPT !.at = "ret"]
       ELSE IF app.rounds = 0
       THEN app' = [app EXCEPT !.rounds = (@ - 1) % QWord, !.at = "ret"]
       ELSE \E r \in HostResults(app.f, app.count, INFINITE - 1) :
               app' = HostWait([app EXCEPT !.rounds = @ - 1], INFINITE - 1, r, TRUE)
    /\ UNCHANGED <<scn, Live, AutoReset, State, Mutex, RegisteredWaits, wfmo, pc, op, loc,
                   opsDone, rets, credit, err>>

\* The value returned for the result, and the index stored.
Win32_Return ==
    /\ scn = "win32" /\ app.at = "ret"
    /\ LET result == app.result
       IN  IF app.f = "WaitForEvent"
           THEN IF result = WAIT_OBJECT_0 \/ result = WAIT_ABANDONED
                THEN app' = [app EXCEPT !.ret = 0, !.at = "done"]
                ELSE IF result = WAIT_TIMEOUT_HOST
                THEN app' = [app EXCEPT !.ret = WAIT_TIMEOUT_HOST, !.at = "done"]
                ELSE \E x \in LastErrors : app' = [app EXCEPT !.ret = x, !.at = "done"]
           ELSE IF result >= WAIT_OBJECT_0 /\ result < WAIT_OBJECT_0 + app.count
                THEN app' = [app EXCEPT !.ret = 0, !.index = result - WAIT_OBJECT_0,
                                        !.at = "done"]
                ELSE IF result >= WAIT_ABANDONED /\ result < WAIT_ABANDONED + app.count
                THEN app' = [app EXCEPT !.ret = 0, !.index = result - WAIT_ABANDONED,
                                        !.at = "done"]
                ELSE IF result = WAIT_FAILED
                THEN \E x \in LastErrors : app' = [app EXCEPT !.ret = x, !.at = "done"]
                ELSE app' = [app EXCEPT !.ret = result, !.at = "done"]
    /\ UNCHANGED <<scn, Live, AutoReset, State, Mutex, RegisteredWaits, wfmo, pc, op, loc,
                   opsDone, rets, credit, err>>

NextWin32 == Win32_Call \/ Win32_Loop \/ Win32_Return

SpecWin32 == InitWin32 /\ [][NextWin32]_vars

\* C31: a call with a timeout other than WAIT_INFINITE passes no host wait the
\* timeout INFINITE.
NeverPassesInfinite ==
    app.milliseconds # WAIT_INFINITE_64
       => \A k \in DOMAIN app.calls : app.calls[k].timeout # INFINITE

\* The sum of the timeouts of the host waits made.
RECURSIVE SumTimeouts(_)
SumTimeouts(calls) ==
    IF calls = <<>> THEN 0 ELSE Head(calls).timeout + SumTimeouts(Tail(calls))

\* Every host wait of the call timed out.
AllTimedOut(calls) == \A k \in DOMAIN calls : calls[k].result = WAIT_TIMEOUT_HOST

\* The last host wait was satisfied or abandoned.
LastSignalled(calls, count) ==
    \/ calls[Len(calls)].result \in WAIT_OBJECT_0..(WAIT_OBJECT_0 + count - 1)
    \/ calls[Len(calls)].result \in WAIT_ABANDONED..(WAIT_ABANDONED + count - 1)

\* C32: a call with a timeout that does not fit in 32 bits makes no host wait after
\* one that did not time out; when all time out their timeouts sum to the timeout
\* asked for; and it returns WAIT_TIMEOUT exactly when every host wait timed out, and
\* 0 when the last one was satisfied or abandoned.
ChunkingExact ==
    (app.at = "done" /\ ~FitsHost(app.milliseconds))
       => /\ \A k \in 1..(Len(app.calls) - 1) : app.calls[k].result = WAIT_TIMEOUT_HOST
          /\ AllTimedOut(app.calls) => SumTimeouts(app.calls) = app.milliseconds
          /\ (app.ret = WAIT_TIMEOUT_HOST) <=> AllTimedOut(app.calls)
          /\ LastSignalled(app.calls, IF app.f = "WaitForEvent" THEN 1 ELSE app.count)
                => app.ret = 0

\* C32 holds for the _WIN32 branch of src/src/pevents.cpp.
ChunkingExactPevents == app.file = "pevents.cpp" => ChunkingExact

\* C33: while no thread holds the mutex of an event, every registration on it of a
\* call that still waits for all its events and holds the event as signalled is on
\* an event whose State is true.
ClaimValidity ==
    \A e \in Live :
        Mutex[e] = 0
           => \A k \in DOMAIN RegisteredWaits[e] :
                 LET r == RegisteredWaits[e][k]
                 IN  (wfmo[r.Waiter].alive /\ wfmo[r.Waiter].WaitAll
                      /\ wfmo[r.Waiter].StillWaiting /\ r.Signalled)
                        => State[e]

\* The registrations of w that do not hold their event as signalled.
Uncounted(R, w) == {x \in RegistrationsOf(R, w) : ~R[x[1]][x[2]].Signalled}

\* C34: EventsLeft of a call that waits for all its events, is past its registration
\* loop and still waits is the number of its registrations that do not hold their
\* event as signalled; EventsLeft of a coordinator is never negative; and the
\* assertion left > 0 of SetEvent never fails.
EventsLeftAccounting ==
    /\ \A w \in WIds :
          (wfmo[w].alive /\ wfmo[w].WaitAll)
             => /\ wfmo[w].Status >= 0
                /\ (wfmo[w].StillWaiting /\ pc[Owner(w)] # "wm_reg")
                      => wfmo[w].Status = Cardinality(Uncounted(RegisteredWaits, w))
    /\ "left > 0" \notin err

\* Thread 2 waits for all of two events, one of which it holds as signalled, with
\* EventsLeft 1, after a ResetEvent by thread 1 and a WaitForEvent of thread 3 that
\* returned 0.
EventsLeftWitness ==
    /\ pc[2] = "wm_wait" /\ op[2].waitAll /\ Len(op[2].events) = 2
    /\ wfmo[loc[2].w].Status = 1
    /\ Cardinality(Counted(RegisteredWaits, loc[2].w)) = 1
    /\ rets[1].call.f = "ResetEvent"
    /\ rets[3].call.f = "WaitForEvent" /\ rets[3].result = 0

\* C35: no auto-reset event whose State is true has, among its registered waits, one
\* of a call that waits for any of its events and still waits; and the assertion
\* State == false of SetEvent, made after a hand-off, never fails.
HandOffAssertion ==
    /\ \A e \in Live :
          (AutoReset[e] /\ State[e])
             => \A k \in DOMAIN RegisteredWaits[e] : ~LiveWaitAny(RegisteredWaits[e][k])
    /\ "State == false" \notin err

\* A SetEvent on an auto-reset event is at its assertion, after the hand-off to the
\* call of thread u, which is woken and has not run yet: State is false.
HandOffAssertionWitness ==
    \E t \in Threads : \E u \in Threads \ {t} :
        /\ pc[t] = "se_walk" /\ loc[t].consumed /\ AutoReset[op[t].event]
        /\ ~State[op[t].event]
        /\ pc[u] = "wm_woken" /\ HandedOff(u)
        /\ op[u].events[wfmo[loc[u].w].Status + 1] = op[t].event

\* The first place of the array es whose event is signalled (there is one).
FirstSignalled(es) ==
    CHOOSE k \in DOMAIN es : State[es[k]] /\ \A j \in 1..(k - 1) : ~State[es[j]]

\* C36: with one thread, a wait for any event of an array that holds a signalled
\* event returns 0 and the index of the first signalled event of the array; State
\* changes for that event only, to false when it is auto-reset; and no registration
\* that refers to the call's coordinator is left on that event or on a later one of
\* the array.
WaitAnyTakesFirst ==
    [][\A t \in Threads :
          (/\ WaitForMultipleEvents(t) /\ Returns(t)
           /\ ~rets'[t].call.waitAll
           /\ \E k \in DOMAIN rets'[t].call.events : State[rets'[t].call.events[k]])
             => LET es == rets'[t].call.events
                    m == FirstSignalled(es)
                    w == CoordinatorOf(t)
                IN  /\ rets'[t].result = 0 /\ rets'[t].index = m - 1
                    /\ State' = [State EXCEPT ![es[m]] = IF AutoReset[es[m]] THEN FALSE
                                                        ELSE @]
                    /\ \A k \in m..Len(es) :
                          \A j \in DOMAIN RegisteredWaits'[es[k]] :
                             RegisteredWaits'[es[k]][j].Waiter # w]_vars

\* A wait for any of three events, the first unsignalled and the two others
\* signalled, returned 0 and index 1: the second event, auto-reset, is unsignalled,
\* the third still signalled, and the call's registration is left on the first.
WaitAnyFirstWitness ==
    /\ rets[1].call.f = "WaitForMultipleEvents" /\ ~rets[1].call.waitAll
    /\ Len(rets[1].call.events) = 3
    /\ rets[1].result = 0 /\ rets[1].index = 1
    /\ AutoReset[rets[1].call.events[2]] /\ ~State[rets[1].call.events[2]]
    /\ AutoReset[rets[1].call.events[3]] /\ State[rets[1].call.events[3]]
    /\ RegisteredWaits[rets[1].call.events[1]] # <<>>

\* C37: a wait for any event returns 0 exactly when the fired event of its
\* coordinator is recorded (not -1) as it stops waiting, and when it returns
\* WAIT_TIMEOUT the index it stores is -1: no SetEvent has handed it a signal.
WaitAnyResultAgrees ==
    [][\A t \in Threads :
          (WaitForMultipleEvents(t) /\ Returns(t) /\ ~rets'[t].call.waitAll)
             => /\ (rets'[t].result = 0) <=> (rets'[t].index # -1)
                /\ pc[t] \in {"wm_wait", "wm_woken"}
                      => rets'[t].index = wfmo[loc[t].w].Status
                /\ rets'[t].result = WAIT_TIMEOUT => rets'[t].index = -1]_vars

\* The coordinators of the calls blocked in a wait for all their events that hold
\* the event e as signalled.
PendingOn(e) ==
    {w \in WIds :
        /\ wfmo[w].alive /\ wfmo[w].WaitAll /\ wfmo[w].StillWaiting
        /\ pc[Owner(w)] = "wm_wait" /\ loc[Owner(w)].w = w
        /\ \E k \in DOMAIN RegisteredWaits[e] :
              RegisteredWaits[e][k].Waiter = w /\ RegisteredWaits[e][k].Signalled}

\* The call thread u is in after the step, or has returned from in the step.
CallAfter(u) == IF pc'[u] = "idle" THEN rets'[u].call ELSE op'[u]

\* In this step thread u, with the mutex of the event e, runs UnlockedWaitForEvent on
\* e in a WaitForEvent whose condition wait did not time out, or examines e in the
\* registration loop of a wait for any event.
Attempts(u, e) ==
    \/ /\ \/ WaitForEvent_Call(u) \/ WaitForEvent_Lock(u)
          \/ WaitForEvent_Wake(u) /\ loc[u].result = 0
       /\ CallAfter(u).event = e
    \/ /\ WFMO_Call(u) \/ WFMO_Register(u)
       /\ ~CallAfter(u).waitAll
       /\ CallAfter(u).events[(IF pc[u] = "idle" THEN 0 ELSE loc[u].i) + 1] = e

\* C38: a WaitForEvent or a wait for any event that comes to a signalled auto-reset
\* event returns 0 and leaves it unsignalled, also when calls blocked in a wait for
\* all their events hold the event as signalled: each of them then holds it no more
\* and has one more event left; and a wait for all returns 0 only at a step that
\* finds every event of its array signalled.
WaitAllNeverReserves ==
    /\ [][\A u \in Threads : \A e \in Live :
            (AutoReset[e] /\ State[e] /\ PendingOn(e) # {} /\ Attempts(u, e))
               => /\ Returns(u) /\ rets'[u].result = 0
                  /\ ~State'[e]
                  /\ \A w \in PendingOn(e) :
                        /\ wfmo'[w].Status = wfmo[w].Status + 1
                        /\ \A k \in DOMAIN RegisteredWaits'[e] :
                              RegisteredWaits'[e][k].Waiter = w
                                 => ~RegisteredWaits'[e][k].Signalled
                        /\ pc'[Owner(w)] = "wm_wait"]_vars
    /\ [][\A t \in Threads :
            (WaitForMultipleEvents(t) /\ Returns(t) /\ rets'[t].call.waitAll
             /\ rets'[t].result = 0)
               => \A k \in DOMAIN rets'[t].call.events : State[rets'[t].call.events[k]]]_vars

\* Thread 2 is blocked in a wait for all of two events, both left, the first
\* auto-reset and unsignalled: thread 3 has obtained it (its wait returned 0) after
\* thread 1 set it.
NeverReservesWitness ==
    /\ pc[2] = "wm_wait" /\ op[2].waitAll /\ Len(op[2].events) = 2
    /\ wfmo[loc[2].w].Status = 2
    /\ AutoReset[op[2].events[1]] /\ ~State[op[2].events[1]]
    /\ rets[1].call = OpSet(op[2].events[1])
    /\ rets[3].result = 0 /\ op[2].events[1] \in ArrayEvents(rets[3].call) \cup {rets[3].call.event}
    /\ credit[op[2].events[1]] = 0

\* The call thread t made was a WaitForMultipleEvents for all the events of its array
\* that returned 0.
ReturnedZero(t) ==
    /\ rets[t].call.f = "WaitForMultipleEvents" /\ rets[t].call.waitAll
    /\ rets[t].result = 0

\* The wait thread t made timed out.
ReturnedTimeout(t) ==
    /\ rets[t].call.f = "WaitForMultipleEvents" /\ rets[t].result = WAIT_TIMEOUT

\* Thread t is in the atomic claim of a wait for all: in the loop of
\* pthread_mutex_trylock, or past it with every mutex held.
InClaim(t) == pc[t] \in {"wm_try", "wm_claimed"}

\* The threads that wait in the overlap scenario.
Overlapping == {3, 4}

\* C39: two threads wait for all of the same two auto-reset events, given in the same
\* or in opposite orders, and each event is set once.  The two calls never both return
\* 0; a call returns 0 at a step that finds both events signalled and leaves both
\* unsignalled; no other step takes the signal of an event, so that the other call
\* consumes none; under fair scheduling a call returns (one with 0, unless a wait
\* timed out first), and each thread leaves its atomic claim again and again: the two
\* try-lock loops do not block each other for ever.
OverlappingWaitAlls ==
    /\ [](~(ReturnedZero(3) /\ ReturnedZero(4)))
    /\ [][\A t \in Overlapping :
            (WaitForMultipleEvents(t) /\ Returns(t) /\ rets'[t].result = 0)
               => \A e \in Live : State[e] /\ ~State'[e]]_vars
    /\ [][(\E e \in Live : State[e] /\ ~State'[e])
               => \E t \in Overlapping : WFMO_Consume(t)]_vars
    /\ <>(\E t \in Overlapping : ReturnedZero(t) \/ ReturnedTimeout(t))
    /\ \A t \in Overlapping : []<>(~InClaim(t))

\* Thread t holds no mutex of an event.
NoEventMutex(t) == \A e \in Events : Mutex[e] # t

\* Thread t holds no mutex of a coordinator.
NoCoordMutex(t) == \A w \in WIds : wfmo[w].Mutex # t

\* The pthread_mutex_trylock thread t is about to make fails its claim: the mutex is
\* busy, or the event is no longer signalled.
ClaimGivesUp(t) ==
    /\ pc[t] = "wm_try"
    /\ LET e == op[t].events[loc[t].i + 1] IN Mutex[e] # 0 \/ ~State[e]

\* C40: a thread that is in no call holds no event mutex and no coordinator mutex; a
\* thread blocked on the condition variable of its coordinator in
\* WaitForMultipleEvents holds no event mutex; and a step of the atomic claim that
\* fails, on a busy mutex or on an event taken by another thread, leaves the thread
\* with no event mutex.
LockRelease ==
    /\ [](\A t \in Threads : pc[t] = "idle" => NoEventMutex(t) /\ NoCoordMutex(t))
    /\ [](\A t \in Threads : pc[t] = "wm_wait" => NoEventMutex(t))
    /\ [][\A t \in Threads :
            (ClaimGivesUp(t) /\ WFMO_TryLock(t)) => \A e \in Events : Mutex'[e] # t]_vars

\* Thread 2 is blocked on the condition variable of its wait for all of two events
\* with no event left to wait for: its claim found the second event taken by another
\* thread and gave the mutexes back; it holds no event mutex, and the first event is
\* signalled.
LockReleaseWitness ==
    /\ pc[2] = "wm_wait" /\ op[2].waitAll /\ Len(op[2].events) = 2
    /\ wfmo[loc[2].w].Status = 0
    /\ State[op[2].events[1]] /\ ~State[op[2].events[2]]
    /\ NoEventMutex(2) /\ NoCoordMutex(2)

====
